---- MODULE Spec2Model ----
(***************************************************************************)
(* Model of the tareas_automaticas backend (FastAPI + SQLAlchemy).         *)
(*                                                                         *)
(* The relational database and the counters of the rate limiter are the   *)
(* shared state.  The handlers are synchronous functions served by a       *)
(* thread pool, each request with a database session of its own, so the    *)
(* statements of other requests may run between two statements of one      *)
(* request.  A request is therefore one action per round trip to the       *)
(* database: the SELECT of get_current_user, each SELECT of the handler,   *)
(* each commit, each refresh.  The worker serving a request keeps its      *)
(* position and what its session has loaded in inflight.  The last action  *)
(* of a request leaves the HTTP response in the variable resp.  Work a     *)
(* handler did in its session but did not commit is discarded when get_db  *)
(* closes the session.                                                     *)
(*                                                                         *)
(* Strings whose letter case matters (emails, usernames) are sequences of  *)
(* one-character strings.  Time is counted in minutes.                     *)
(***************************************************************************)
EXTENDS Integers, Sequences, FiniteSets, TLC

VARIABLES
    users,          \* table users: id -> row
    jar,            \* cookie jar of the client: access_token, refresh_token
    now,            \* server clock, minutes
    contacts,       \* table contacts: id -> row
    contact_seq,    \* last value of the contacts id sequence
    tasks,          \* table tasks: id -> row
    task_contacts,  \* association table: set of <<task_id, contact_id>>
    history,        \* table task_history, in insertion order
    ai_requests,    \* table ai_requests: id -> row
    inflight,       \* the requests being served step by step, one per worker
    hits,           \* rate limiter: requests counted in the current window
    resp            \* the request just served and its response

vars ==
    <<users, jar, now, contacts, contact_seq, tasks, task_contacts, history, ai_requests,
      inflight, hits, resp>>

authVars == <<users, jar, now>>
dataVars == <<contacts, contact_seq, tasks, task_contacts, history>>

\* the two workers that serve requests concurrently, each with its own
\* database session
Workers == {1, 2}

\* a worker that is serving no request
Idle == [pc |-> "idle"]

NoRequests == [w \in Workers |-> Idle]

Serve(w, request) == inflight' = [inflight EXCEPT ![w] = request]

Done(w) == inflight' = [inflight EXCEPT ![w] = Idle]

\* the requests of kind op that are being served
Pending(op) == {w \in Workers : inflight[w].pc # "idle" /\ inflight[w].op = op}

\* worker w takes the step of request op that leads from position pc on
StepOf(w, op, pc) ==
    /\ inflight[w].pc = pc
    /\ pc # "idle" => inflight[w].op = op
    /\ inflight'[w] # inflight[w]
    /\ pc = "idle" => (inflight'[w].pc # "idle" /\ inflight'[w].op = op)

\* one worker alone: the requests are served one after another
OneWorker == {1}

\* the request with one more thing its session holds
Put(request, name, value) ==
    [field \in DOMAIN request \cup {name} |-> IF field = name THEN value ELSE request[field]]

\* the request at another position
At(request, pc) == [request EXCEPT !.pc = pc]

\* what resp shows while a request is between two of its steps
InProgress ==
    [op |-> "step", status |-> 0, detail |-> "", user |-> 0,
     cred |-> [present |-> FALSE, wellformed |-> FALSE, key |-> "", sub |-> <<>>,
               username |-> <<>>, typ |-> "", exp |-> 0],
     req |-> [none |-> TRUE]]

\* no request has been counted by the rate limiter
NoHits == [register |-> 0, login |-> 0]

----------------------------------------------------------------------------
(* Bounds of the exploration *)

MaxUsers == 2
MaxTicks == 1
MaxContacts == 2
MaxTasks == 1
MaxHistory == 3
MaxRequests == 2

----------------------------------------------------------------------------
(* Settings *)

ACCESS_TOKEN_EXPIRE_MINUTES == 30
REFRESH_TOKEN_EXPIRE_DAYS == 7
SECRET_KEY == "SECRET_KEY"

\* @limiter.limit("3/minute") on register_user and @limiter.limit("5/minute")
\* on login, counted per client address
REGISTER_LIMIT == 3
LOGIN_LIMIT == 5


----------------------------------------------------------------------------
(* Strings *)

Range(s) == {s[i] : i \in DOMAIN s}

LowerChar(c) ==
    CASE c = "A" -> "a"
      [] c = "X" -> "x"
      [] c = "N" -> "n"
      [] OTHER -> c

Lower(s) == [i \in DOMAIN s |-> LowerChar(s[i])]

\* str(int) and int(str) for the ids carried in the "sub" claim
Digit(d) ==
    CASE d = 0 -> "0" [] d = 1 -> "1" [] d = 2 -> "2" [] d = 3 -> "3"
      [] d = 4 -> "4" [] d = 5 -> "5" [] d = 6 -> "6" [] d = 7 -> "7"
      [] d = 8 -> "8" [] OTHER -> "9"

DigitVal(c) == CHOOSE d \in 0..9 : Digit(d) = c

RECURSIVE str(_)
str(n) == IF n < 10 THEN <<Digit(n)>> ELSE Append(str(n \div 10), Digit(n % 10))

RECURSIVE int(_)
int(s) ==
    IF Len(s) = 1 THEN DigitVal(s[1])
    ELSE 10 * int(SubSeq(s, 1, Len(s) - 1)) + DigitVal(s[Len(s)])

\* str methods used by the contact validators; " " is the only whitespace
\* and the characters are ASCII
Digits == {Digit(d) : d \in 0..9}

Letters ==
    {"a", "b", "c", "d", "e", "f", "g", "h", "i", "j", "k", "l", "m", "n", "o", "p", "q",
     "r", "s", "t", "u", "v", "w", "x", "y", "z", "A", "B", "C", "D", "E", "F", "G", "H",
     "I", "J", "K", "L", "M", "N", "O", "P", "Q", "R", "S", "T", "U", "V", "W", "X", "Y",
     "Z"}

\* the positions of v that hold no blank
NonBlank(v) == {i \in DOMAIN v : v[i] # " "}

\* v without the blanks it begins with
lstrip(v) ==
    LET kept == NonBlank(v) IN
    IF kept = {} THEN <<>>
    ELSE SubSeq(v, CHOOSE i \in kept : \A j \in kept : i <= j, Len(v))

\* v without the blanks it ends with
rstrip(v) ==
    LET kept == NonBlank(v) IN
    IF kept = {} THEN <<>>
    ELSE SubSeq(v, 1, CHOOSE i \in kept : \A j \in kept : j <= i)

strip(v) == rstrip(lstrip(v))

startswith(v, c) == v # <<>> /\ Head(v) = c

\* v[1:]
slice_1(v) == IF v = <<>> THEN <<>> ELSE Tail(v)

\* v.replace(c, '')
str_replace(v, c) == SelectSeq(v, LAMBDA x : x # c)

isdigit(v) == v # <<>> /\ \A i \in DOMAIN v : v[i] \in Digits

isalnum(v) == v # <<>> /\ \A i \in DOMAIN v : v[i] \in Digits \cup Letters

\* v.split(c)[1] for a v that contains c: the text between the first c and
\* the next one
split_1(v, c) ==
    LET first == CHOOSE i \in DOMAIN v : v[i] = c /\ \A j \in 1..(i - 1) : v[j] # c
        rest == {j \in (first + 1)..Len(v) : v[j] = c}
        stop == IF rest = {} THEN Len(v) + 1
                ELSE CHOOSE j \in rest : \A k \in rest : j <= k
    IN SubSeq(v, first + 1, stop - 1)

\* v.split(c): the pieces of v between the occurrences of c
split(v, c) ==
    LET at == {i \in DOMAIN v : v[i] = c}
        n == Cardinality(at)
        cut(k) == IF k = 0 THEN 0
                  ELSE IF k = n + 1 THEN Len(v) + 1
                  ELSE CHOOSE i \in at : Cardinality({j \in at : j < i}) = k - 1
    IN [k \in 1..(n + 1) |-> SubSeq(v, cut(k - 1) + 1, cut(k) - 1)]

\* c.join(parts)
RECURSIVE join(_, _)
join(c, parts) ==
    IF parts = <<>> THEN <<>>
    ELSE IF Len(parts) = 1 THEN parts[1]
    ELSE LET half == Len(parts) \div 2
         IN join(c, SubSeq(parts, 1, half)) \o <<c>>
               \o join(c, SubSeq(parts, half + 1, Len(parts)))

----------------------------------------------------------------------------
(* schemas/user.py: request validation *)

AtIndex(v) == CHOOSE i \in DOMAIN v : v[i] = "@" /\ \A j \in DOMAIN v : v[j] = "@" => j <= i

\* EmailStr: the address must have a local part, an "@" and a dotted domain;
\* the validated value keeps the local part and lower-cases the domain.
EmailStr(v) ==
    IF "@" \notin Range(v) THEN [ok |-> FALSE, value |-> v]
    ELSE LET at == AtIndex(v)
             local == SubSeq(v, 1, at - 1)
             domain == SubSeq(v, at + 1, Len(v))
         IN  IF Len(local) = 0 \/ "." \notin Range(domain) \/ "@" \in Range(local)
             THEN [ok |-> FALSE, value |-> v]
             ELSE [ok |-> TRUE, value |-> local \o <<"@">> \o Lower(domain)]

\* UserCreate: email EmailStr, username 3..50 characters, password >= 8
UserCreate(body) ==
    LET e == EmailStr(body.email) IN
    IF e.ok /\ Len(body.username) >= 3 /\ Len(body.username) <= 50
            /\ Len(body.password) >= 8
    THEN [ok |-> TRUE, email |-> e.value, username |-> body.username,
          password |-> body.password]
    ELSE [ok |-> FALSE, email |-> body.email, username |-> body.username,
          password |-> body.password]

\* the fields UserUpdate declares
UserUpdateFields == {"email", "username", "full_name", "password", "is_active"}

\* UserUpdate with extra = "allow": the keys the schema does not declare are
\* kept in model_dump
UserUpdate_allowing_extra(body) ==
    LET e == EmailStr(body.email) IN
    [ok |-> /\ ("email" \in body.set => e.ok)
            /\ ("username" \in body.set => Len(body.username) >= 3 /\ Len(body.username) <= 50)
            /\ ("password" \in body.set => Len(body.password) >= 8),
     set |-> body.set,
     email |-> IF "email" \in body.set /\ e.ok THEN e.value ELSE body.email,
     username |-> body.username, password |-> body.password,
     is_active |-> body.is_active,
     is_superuser |-> IF "is_superuser" \in body.set THEN body.is_superuser ELSE FALSE]

\* UserUpdate: every field optional; body.set names the fields that were
\* sent, and a key the schema does not declare is dropped
UserUpdate(body) ==
    LET e == EmailStr(body.email) IN
    IF /\ ("email" \in body.set => e.ok)
       /\ ("username" \in body.set => Len(body.username) >= 3 /\ Len(body.username) <= 50)
       /\ ("password" \in body.set => Len(body.password) >= 8)
    THEN [ok |-> TRUE, set |-> body.set \cap UserUpdateFields,
          email |-> IF "email" \in body.set THEN e.value ELSE body.email,
          username |-> body.username, password |-> body.password,
          is_active |-> body.is_active]
    ELSE [ok |-> FALSE, set |-> body.set, email |-> body.email,
          username |-> body.username, password |-> body.password,
          is_active |-> body.is_active]

----------------------------------------------------------------------------
(* core/security.py *)

get_password_hash(password) == [bcrypt |-> password]

verify_password(plain_password, hashed_password) == hashed_password.bcrypt = plain_password

\* A JWT as the client holds it.  key is the key it was signed with.
NoToken ==
    [present |-> FALSE, wellformed |-> FALSE, key |-> "", sub |-> <<>>,
     username |-> <<>>, typ |-> "", exp |-> 0]

MalformedToken ==
    [present |-> TRUE, wellformed |-> FALSE, key |-> "", sub |-> <<>>,
     username |-> <<>>, typ |-> "", exp |-> 0]

jwt_encode(to_encode, key) ==
    [present |-> TRUE, wellformed |-> TRUE, key |-> key, sub |-> to_encode.sub,
     username |-> to_encode.username, typ |-> to_encode.typ, exp |-> to_encode.exp]

create_access_token(data, t) ==
    jwt_encode([sub |-> data.sub, username |-> data.username,
                exp |-> t + ACCESS_TOKEN_EXPIRE_MINUTES, typ |-> "access"], SECRET_KEY)

create_refresh_token(data, t) ==
    jwt_encode([sub |-> data.sub, username |-> data.username,
                exp |-> t + REFRESH_TOKEN_EXPIRE_DAYS * 24 * 60, typ |-> "refresh"], SECRET_KEY)

NoPayload == [ok |-> FALSE, sub |-> <<>>, typ |-> ""]

\* decode_access_token with exp verification switched off
decode_access_token_no_exp(token, t) ==
    IF token.wellformed /\ token.key = SECRET_KEY
    THEN [ok |-> TRUE, sub |-> token.sub, typ |-> token.typ]
    ELSE NoPayload

\* jwt.decode: the signature must verify under SECRET_KEY and exp must not
\* lie in the past; any failure is a JWTError, returned as None.
decode_access_token(token, t) ==
    IF token.wellformed /\ token.key = SECRET_KEY /\ ~(token.exp < t)
    THEN [ok |-> TRUE, sub |-> token.sub, typ |-> token.typ]
    ELSE NoPayload

\* verify_refresh_token without the comparison of the type field
verify_refresh_token_any_type(token, t) ==
    LET payload == decode_access_token(token, t) IN
    IF payload.ok THEN payload ELSE NoPayload

verify_refresh_token(token, t) ==
    LET payload == decode_access_token(token, t) IN
    IF payload.ok /\ payload.typ = "refresh" THEN payload ELSE NoPayload

----------------------------------------------------------------------------
(* crud/user.py *)

UserIds(db_users) == DOMAIN db_users

get_user_by_id(db_users, user_id) ==
    IF user_id \in DOMAIN db_users THEN {user_id} ELSE {}

\* WHERE users.email = :email  (exact, case-sensitive comparison)
get_user_by_email(db_users, email) ==
    {u \in DOMAIN db_users : db_users[u].email = email}

\* WHERE users.username = :username
get_user_by_username(db_users, username) ==
    {u \in DOMAIN db_users : db_users[u].username = username}

\* WHERE users.username = :x OR users.email = :x, then first(): the query has
\* no ORDER BY, so when a username of one user equals the email of another
\* the row that comes back is either of them.  The result is the set of
\* rows first() may return, empty when no row matches.
get_user_by_username_or_email(db_users, username_or_email) ==
    {u \in DOMAIN db_users :
        db_users[u].username = username_or_email \/ db_users[u].email = username_or_email}

\* authenticate_user without the is_active test
authenticate_user_ignoring_active(db_users, username_or_email, password) ==
    LET rows == get_user_by_username_or_email(db_users, username_or_email) IN
    IF rows = {} THEN {0}
    ELSE { IF ~verify_password(password, db_users[user].hashed_password) THEN 0
           ELSE user : user \in rows }

\* the outcomes of authenticate_user, one for each row first() may return:
\* the password of that one row is tested, then its is_active; 0 stands for
\* None
authenticate_user(db_users, username_or_email, password) ==
    LET rows == get_user_by_username_or_email(db_users, username_or_email) IN
    IF rows = {} THEN {0}
    ELSE { IF ~verify_password(password, db_users[user].hashed_password) THEN 0
           ELSE IF ~db_users[user].is_active THEN 0
           ELSE user : user \in rows }

create_user(db_users, user) ==
    LET id == Cardinality(DOMAIN db_users) + 1 IN
    [u \in DOMAIN db_users \cup {id} |->
        IF u = id
        THEN [email |-> user.email, username |-> user.username,
              hashed_password |-> get_password_hash(user.password),
              is_active |-> TRUE, is_superuser |-> FALSE]
        ELSE db_users[u]]

\* the columns the flush of update_user writes: setattr with the value the
\* session holds leaves the attribute unmodified, and a password is hashed
\* with a fresh salt, so its column always changes
ChangedColumns(loaded, user_update) ==
    {field \in user_update.set :
        \/ field = "password"
        \/ field = "email" /\ user_update.email # loaded.email
        \/ field = "username" /\ user_update.username # loaded.username
        \/ field = "is_active" /\ user_update.is_active # loaded.is_active
        \/ field = "is_superuser" /\ user_update.is_superuser # loaded.is_superuser}

\* every field of model_dump(exclude_unset=True) is written with setattr
update_user(db_users, user_id, user_update) ==
    [db_users EXCEPT ![user_id] =
        [email |-> IF "email" \in user_update.set THEN user_update.email ELSE @.email,
         username |-> IF "username" \in user_update.set THEN user_update.username ELSE @.username,
         hashed_password |-> IF "password" \in user_update.set
                             THEN get_password_hash(user_update.password)
                             ELSE @.hashed_password,
         is_active |-> IF "is_active" \in user_update.set THEN user_update.is_active ELSE @.is_active,
         is_superuser |-> IF "is_superuser" \in user_update.set
                          THEN user_update.is_superuser
                          ELSE @.is_superuser]]

delete_user(db_users, user_id) == [db_users EXCEPT ![user_id].is_active = FALSE]

----------------------------------------------------------------------------
(* api/deps.py *)

\* bearer_scheme = HTTPBearer(): a request without a usable Authorization
\* header is refused before get_current_user runs, with 403 by the FastAPI
\* releases up to 0.115 and with 401 by the later ones; no release is pinned.
NotAuthenticated == {401, 403}

\* HTTPBearer + get_current_user: the outcomes the dependency can have.  The
\* credential is the token of the Authorization header; cookies are not
\* consulted.
get_current_user(db_users, credentials, t) ==
    IF ~credentials.present
    THEN {[status |-> s, user |-> 0] : s \in NotAuthenticated}
    ELSE LET payload == decode_access_token(credentials, t) IN
         IF ~payload.ok THEN {[status |-> 401, user |-> 0]}
         ELSE IF Len(payload.sub) = 0 THEN {[status |-> 401, user |-> 0]}
         ELSE LET user_id == int(payload.sub) IN
              IF get_user_by_id(db_users, user_id) = {} THEN {[status |-> 401, user |-> 0]}
              ELSE IF ~db_users[user_id].is_active THEN {[status |-> 400, user |-> 0]}
              ELSE {[status |-> 200, user |-> user_id]}

get_current_active_superuser(db_users, credentials, t) ==
    { IF cu.status # 200 THEN cu
      ELSE IF ~db_users[cu.user].is_superuser THEN [status |-> 403, user |-> 0]
      ELSE cu : cu \in get_current_user(db_users, credentials, t) }

----------------------------------------------------------------------------
(* Requests the clients send *)

EmailInputs ==
    { <<"a", "@", "x", ".", "i", "o">>,
      <<"A", "@", "x", ".", "i", "o">>,
      <<"a", "@", "X", ".", "i", "o">>,
      <<"a", "x", ".", "i", "o">> }

UsernameInputs == { <<"a", "n", "n">>, <<"A", "n", "n">>, <<"a", "n">> }

PasswordInputs == { "password1" }

LoginPasswords == { "password1", "wrongpass" }

\* the password of ann and the password of eve: each is a wrong password for
\* the other user
SharedNamePasswords == { "password1", "password2" }

RegisterBodies ==
    [email : EmailInputs, username : UsernameInputs, password : PasswordInputs]

\* the registrations of ann and of bob
AuthBodies ==
    { [email |-> <<"a", "@", "x", ".", "i", "o">>, username |-> <<"a", "n", "n">>,
       password |-> "password1"],
      [email |-> <<"b", "@", "x", ".", "i", "o">>, username |-> <<"b", "o", "b">>,
       password |-> "password1"] }

\* the registrations of ann and of eve, whose username is the email of ann
SharedNameBodies ==
    { [email |-> <<"a", "@", "x", ".", "i", "o">>, username |-> <<"a", "n", "n">>,
       password |-> "password1"],
      [email |-> <<"e", "@", "x", ".", "i", "o">>,
       username |-> <<"a", "@", "x", ".", "i", "o">>, password |-> "password2"] }

\* the names a login is tried with: an email and a username
LoginNames == { <<"a", "@", "x", ".", "i", "o">>, <<"b", "o", "b">> }

\* the email of ann, which is also the username of eve, and the email of eve
SharedNames == { <<"a", "@", "x", ".", "i", "o">>, <<"e", "@", "x", ".", "i", "o">> }

UserUpdateBodies ==
    [set : {{"is_active"}}, is_active : BOOLEAN, email : {<<"a", "@", "x", ".", "i", "o">>},
     username : {<<"a", "n", "n">>}, password : PasswordInputs]
    \cup
    [set : {{"username"}}, is_active : {TRUE}, email : {<<"a", "@", "x", ".", "i", "o">>},
     username : {<<"A", "n", "n">>}, password : PasswordInputs]
    \cup
    [set : {{"email"}}, is_active : {TRUE}, email : {<<"A", "@", "x", ".", "i", "o">>},
     username : {<<"a", "n", "n">>}, password : PasswordInputs]

\* PUT /users/me with is_active = false alone
DeactivateBodies == {body \in UserUpdateBodies : body.set = {"is_active"} /\ ~body.is_active}

\* tokens signed by somebody who does not hold SECRET_KEY
ForgedTokens ==
    { jwt_encode([sub |-> str(u), username |-> users[u].username,
                  exp |-> now + ACCESS_TOKEN_EXPIRE_MINUTES, typ |-> ty], "attacker_key") :
        u \in DOMAIN users, ty \in {"access", "refresh"} }

\* what a client can put into the Authorization header or a cookie
Presentable ==
    {NoToken, MalformedToken, jar.access_token, jar.refresh_token} \cup ForgedTokens

EmptyJar == [access_token |-> NoToken, refresh_token |-> NoToken]

NoReq == [none |-> TRUE]

Response(op, status, detail, user, cred, req) ==
    [op |-> op, status |-> status, detail |-> detail, user |-> user,
     cred |-> cred, req |-> req]

\* instants the clock may show: sums of at most MaxTicks jumps
Jumps == {ACCESS_TOKEN_EXPIRE_MINUTES + 1, REFRESH_TOKEN_EXPIRE_DAYS * 24 * 60 + 1}

Instants ==
    { a * (ACCESS_TOKEN_EXPIRE_MINUTES + 1) + b * (REFRESH_TOKEN_EXPIRE_DAYS * 24 * 60 + 1) :
        a \in 0..MaxTicks, b \in 0..MaxTicks } \cap
    0..(MaxTicks * (REFRESH_TOKEN_EXPIRE_DAYS * 24 * 60 + 1))

----------------------------------------------------------------------------
(* api/routes/auth.py *)

\* the limit of a route is exhausted for the client address.  slowapi wraps
\* the endpoint function, so a request counts once its body has passed
\* validation, and a refused request runs none of the function.
RateLimitExceeded(route, limit) == hits[route] >= limit

\* the request is counted, up to the limit
Hit(route, limit) == [hits EXCEPT ![route] = IF @ < limit THEN @ + 1 ELSE @]

\* POST /auth/register up to the function body: the validation of the
\* request body and the limiter, which counts the request
register_user(w, body) ==
    LET user_in == UserCreate(body) IN
    /\ inflight[w].pc = "idle"
    /\ UNCHANGED ai_requests
    /\ UNCHANGED authVars
    /\ UNCHANGED dataVars
    /\ IF ~user_in.ok
       THEN /\ UNCHANGED <<inflight, hits>>
            /\ resp' = Response("register", 422, "validation", 0, NoToken, body)
       ELSE IF RateLimitExceeded("register", REGISTER_LIMIT)
       THEN /\ UNCHANGED <<inflight, hits>>
            /\ resp' = Response("register", 429, "rate_limit", 0, NoToken, body)
       ELSE /\ Cardinality(DOMAIN users) + Cardinality(Pending("register")) < MaxUsers
            /\ hits' = Hit("register", REGISTER_LIMIT)
            /\ Serve(w, [op |-> "register", pc |-> "counted", body |-> body])
            /\ resp' = InProgress

\* register_user, the look-up by email
register_user_email(w) ==
    LET request == inflight[w]
        user_in == UserCreate(request.body)
    IN
    /\ request.pc = "counted"
    /\ request.op = "register"
    /\ UNCHANGED <<ai_requests, hits>>
    /\ UNCHANGED authVars
    /\ UNCHANGED dataVars
    /\ IF get_user_by_email(users, user_in.email) # {}
       THEN /\ Done(w)
            /\ resp' = Response("register", 400, "email", 0, NoToken, request.body)
       ELSE /\ Serve(w, At(request, "email_free"))
            /\ resp' = InProgress

\* register_user, the look-up by username
register_user_username(w) ==
    LET request == inflight[w]
        user_in == UserCreate(request.body)
    IN
    /\ request.pc = "email_free"
    /\ request.op = "register"
    /\ UNCHANGED <<ai_requests, hits>>
    /\ UNCHANGED authVars
    /\ UNCHANGED dataVars
    /\ IF get_user_by_username(users, user_in.username) # {}
       THEN /\ Done(w)
            /\ resp' = Response("register", 400, "username", 0, NoToken, request.body)
       ELSE /\ Serve(w, At(request, "checked"))
            /\ resp' = InProgress

\* create_user: the INSERT and the commit.  users.email and users.username
\* are unique columns: when a committed row has the email or the username
\* the INSERT raises IntegrityError, which neither create_user nor the route
\* catches, and the global exception handler answers 500.  db.refresh then
\* reloads the row, of which the response as modelled shows the id.
register_user_commit(w) ==
    LET request == inflight[w]
        user_in == UserCreate(request.body)
    IN
    /\ request.pc = "checked"
    /\ request.op = "register"
    /\ UNCHANGED <<ai_requests, hits>>
    /\ UNCHANGED <<jar, now>>
    /\ UNCHANGED dataVars
    /\ Done(w)
    /\ IF get_user_by_email(users, user_in.email) # {}
          \/ get_user_by_username(users, user_in.username) # {}
       THEN /\ users' = users
            /\ resp' = Response("register", 500, "IntegrityError", 0, NoToken, request.body)
       ELSE /\ users' = create_user(users, user_in)
            /\ resp' = Response("register", 201, "", Cardinality(DOMAIN users) + 1, NoToken,
                                request.body)

\* POST /auth/login up to the function body: the limiter counts the request
login(w, username_or_email, password) ==
    LET req == [username_or_email |-> username_or_email, password |-> password]
    IN
    /\ inflight[w].pc = "idle"
    /\ UNCHANGED ai_requests
    /\ UNCHANGED authVars
    /\ UNCHANGED dataVars
    /\ IF RateLimitExceeded("login", LOGIN_LIMIT)
       THEN /\ UNCHANGED <<inflight, hits>>
            /\ resp' = Response("login", 429, "rate_limit", 0, NoToken, req)
       ELSE /\ hits' = Hit("login", LOGIN_LIMIT)
            /\ Serve(w, [op |-> "login", pc |-> "counted", req |-> req])
            /\ resp' = InProgress

\* login, the function body: the SELECT of authenticate_user and the cookies
login_authenticate(w) ==
    LET request == inflight[w]
        req == request.req
    IN
    /\ request.pc = "counted"
    /\ request.op = "login"
    /\ UNCHANGED <<ai_requests, hits>>
    /\ UNCHANGED <<users, now>>
    /\ UNCHANGED dataVars
    /\ Done(w)
    /\ \E user \in authenticate_user(users, req.username_or_email, req.password) :
       IF user = 0
       THEN /\ jar' = jar
            /\ resp' = Response("login", 401, "credentials", 0, NoToken, req)
       ELSE LET data == [sub |-> str(user), username |-> users[user].username] IN
            /\ jar' = [access_token |-> create_access_token(data, now),
                       refresh_token |-> create_refresh_token(data, now)]
            /\ resp' = Response("login", 200, "", user, NoToken, req)

\* GET /auth/me: the SELECT of get_current_user is the one statement
get_me(credentials) ==
    \E current_user \in get_current_user(users, credentials, now) :
    /\ UNCHANGED <<ai_requests, inflight, hits>>
    /\ UNCHANGED <<users, jar, now>>
    /\ UNCHANGED dataVars
    /\ resp' = Response("get_me", current_user.status, "", current_user.user, credentials, NoReq)

\* POST /auth/refresh
refresh(refresh_token) ==
    LET payload == verify_refresh_token(refresh_token, now) IN
    /\ UNCHANGED <<ai_requests, inflight, hits>>
    /\ UNCHANGED <<users, now>>
    /\ UNCHANGED dataVars
    /\ IF ~refresh_token.present
       THEN /\ jar' = jar
            /\ resp' = Response("refresh", 401, "missing", 0, refresh_token, NoReq)
       ELSE IF ~payload.ok
       THEN /\ jar' = jar
            /\ resp' = Response("refresh", 401, "invalid", 0, refresh_token, NoReq)
       ELSE IF Len(payload.sub) = 0
       THEN /\ jar' = jar
            /\ resp' = Response("refresh", 401, "format", 0, refresh_token, NoReq)
       ELSE LET user_id == int(payload.sub) IN
            IF get_user_by_id(users, user_id) = {}
            THEN /\ jar' = jar
                 /\ resp' = Response("refresh", 401, "not_found", 0, refresh_token, NoReq)
            ELSE IF ~users[user_id].is_active
            THEN /\ jar' = jar
                 /\ resp' = Response("refresh", 401, "inactive", 0, refresh_token, NoReq)
            ELSE /\ jar' = [jar EXCEPT !.access_token =
                                create_access_token([sub |-> str(user_id),
                                                     username |-> users[user_id].username], now)]
                 /\ resp' = Response("refresh", 200, "", user_id, refresh_token, NoReq)

\* POST /auth/logout
logout ==
    /\ UNCHANGED <<ai_requests, inflight, hits>>
    /\ jar # EmptyJar
    /\ jar' = EmptyJar
    /\ resp' = Response("logout", 200, "", 0, NoToken, NoReq)
    /\ UNCHANGED <<users, now>>
    /\ UNCHANGED dataVars

----------------------------------------------------------------------------
(* The dependencies of a protected route *)

\* the routes that depend on get_current_active_superuser
SuperuserOps == {"delete_user", "list_users"}

\* the outcomes of the dependency of route op
CurrentUser(op, credentials) ==
    IF op \in SuperuserOps
    THEN get_current_active_superuser(users, credentials, now)
    ELSE get_current_user(users, credentials, now)

\* A protected route up to its function body.  FastAPI solves the
\* dependencies first: get_db opens the session and get_current_user SELECTs
\* the caller, whose HTTPException ends the request.  The path, the query
\* and the body are validated next, against the clock of that moment:
\* status is 200, or 422 for a ValidationError, or 500 for another error a
\* validator raised, and value is what the route function receives.  raw is
\* the request as it was sent.  The session keeps the caller's row as the
\* SELECT loaded it.  room bounds the requests being served.
solve_dependencies(w, op, credentials, raw, status, value, room) ==
    \E current_user \in CurrentUser(op, credentials) :
    /\ inflight[w].pc = "idle"
    /\ UNCHANGED <<ai_requests, hits>>
    /\ UNCHANGED authVars
    /\ UNCHANGED dataVars
    /\ IF current_user.status # 200
       THEN /\ UNCHANGED inflight
            /\ resp' = Response(op, current_user.status, "auth", 0, credentials, raw)
       ELSE IF status # 200
       THEN /\ UNCHANGED inflight
            /\ resp' = Response(op, status, "validation", 0, credentials, raw)
       ELSE /\ room
            /\ Serve(w, [op |-> op, pc |-> "authenticated", user |-> current_user.user,
                         cred |-> credentials, raw |-> raw, req |-> value,
                         current_user |-> users[current_user.user]])
            /\ resp' = InProgress

----------------------------------------------------------------------------
(* api/routes/users.py *)

\* PUT /users/me up to the function body
update_me(w, credentials, body) ==
    LET user_update == UserUpdate(body) IN
    solve_dependencies(w, "update_me", credentials, body,
                       IF user_update.ok THEN 200 ELSE 422, user_update, TRUE)

\* the statement a PUT /users/me that is being served runs next: the look-up
\* by email when an email was sent that differs from the one the session
\* loaded, the look-up by username likewise, then the commit of update_user
update_me_next(request) ==
    LET user_update == request.req
        by_email == /\ "email" \in user_update.set
                    /\ user_update.email # request.current_user.email
        by_username == /\ "username" \in user_update.set
                       /\ user_update.username # request.current_user.username
    IN
    IF request.pc = "authenticated" /\ by_email THEN "email"
    ELSE IF request.pc \in {"authenticated", "email_free"} /\ by_username THEN "username"
    ELSE "commit"

\* update_me, the look-up by email.  The row it finds may be the caller's
\* own, committed by another request of the caller since this session
\* loaded it.
update_me_email(w) ==
    LET request == inflight[w] IN
    /\ request.pc = "authenticated"
    /\ request.op = "update_me"
    /\ update_me_next(request) = "email"
    /\ UNCHANGED <<ai_requests, hits>>
    /\ UNCHANGED authVars
    /\ UNCHANGED dataVars
    /\ IF get_user_by_email(users, request.req.email) # {}
       THEN /\ Done(w)
            /\ resp' = Response("update_me", 400, "email", 0, request.cred, request.raw)
       ELSE /\ Serve(w, At(request, "email_free"))
            /\ resp' = InProgress

\* update_me, the look-up by username
update_me_username(w) ==
    LET request == inflight[w] IN
    /\ request.pc \in {"authenticated", "email_free"}
    /\ request.op = "update_me"
    /\ update_me_next(request) = "username"
    /\ UNCHANGED <<ai_requests, hits>>
    /\ UNCHANGED authVars
    /\ UNCHANGED dataVars
    /\ IF get_user_by_username(users, request.req.username) # {}
       THEN /\ Done(w)
            /\ resp' = Response("update_me", 400, "username", 0, request.cred, request.raw)
       ELSE /\ Serve(w, At(request, "checked"))
            /\ resp' = InProgress

\* update_user: get_user_by_id returns the object the session holds, as
\* get_current_user loaded it; then the setattr loop and the commit.  The
\* UPDATE carries the columns whose new value differs from the loaded one.
\* users.email and users.username are unique columns: when a row committed
\* since the look-ups has the new email or username the UPDATE raises
\* IntegrityError, which neither update_user nor the route catches, and the
\* global exception handler answers 500.  db.refresh then reloads the row,
\* of which the response as modelled shows the id.
update_me_commit(w) ==
    LET request == inflight[w]
        user_update == request.req
        written == ChangedColumns(request.current_user, user_update)
        others == DOMAIN users \ {request.user}
    IN
    /\ request.pc \in {"authenticated", "email_free", "checked"}
    /\ request.op = "update_me"
    /\ update_me_next(request) = "commit"
    /\ UNCHANGED <<ai_requests, hits>>
    /\ UNCHANGED <<jar, now>>
    /\ UNCHANGED dataVars
    /\ Done(w)
    /\ IF \/ "email" \in written /\ \E u \in others : users[u].email = user_update.email
          \/ "username" \in written
                /\ \E u \in others : users[u].username = user_update.username
       THEN /\ users' = users
            /\ resp' = Response("update_me", 500, "IntegrityError", 0, request.cred,
                                request.raw)
       ELSE /\ users' = update_user(users, request.user,
                                    [user_update EXCEPT !.set = written])
            /\ resp' = Response("update_me", 200, "", request.user, request.cred,
                                request.raw)

\* DELETE /users/{user_id} up to the function body
delete_user_route(w, credentials, user_id) ==
    solve_dependencies(w, "delete_user", credentials, [user_id |-> user_id], 200,
                       [user_id |-> user_id], TRUE)

\* delete_user, get_user_by_id: the row of the caller is the object
\* get_current_user loaded, any other row is loaded now
delete_user_read(w) ==
    LET request == inflight[w]
        user_id == request.req.user_id
    IN
    /\ request.pc = "authenticated"
    /\ request.op = "delete_user"
    /\ UNCHANGED <<ai_requests, hits>>
    /\ UNCHANGED authVars
    /\ UNCHANGED dataVars
    /\ IF get_user_by_id(users, user_id) = {}
       THEN /\ Done(w)
            /\ resp' = Response("delete_user", 404, "", 0, request.cred, request.raw)
       ELSE /\ Serve(w, Put(At(request, "loaded"), "loaded",
                            IF user_id = request.user THEN request.current_user
                            ELSE users[user_id]))
            /\ resp' = InProgress

\* delete_user, is_active = False and the commit: an UPDATE only when the
\* session loaded the row as active
delete_user_commit(w) ==
    LET request == inflight[w] IN
    /\ request.pc = "loaded"
    /\ request.op = "delete_user"
    /\ UNCHANGED <<ai_requests, hits>>
    /\ UNCHANGED <<jar, now>>
    /\ UNCHANGED dataVars
    /\ Done(w)
    /\ users' = IF request.loaded.is_active THEN delete_user(users, request.req.user_id)
                ELSE users
    /\ resp' = Response("delete_user", 200, "", request.user, request.cred, request.raw)

\* the server clock advances, by more than the minute a window of the rate
\* limiter lasts
Tick ==
    /\ UNCHANGED <<ai_requests, inflight>>
    /\ hits' = NoHits
    /\ \E d \in Jumps : now + d \in Instants /\ now' = now + d
    /\ resp' = Response("tick", 0, "", 0, NoToken, NoReq)
    /\ UNCHANGED <<users, jar>>
    /\ UNCHANGED dataVars

----------------------------------------------------------------------------

(* The authentication service, started on an empty database *)

InitAuth ==
    /\ users = <<>>
    /\ jar = EmptyJar
    /\ now = 0
    /\ contacts = <<>>
    /\ contact_seq = 0
    /\ tasks = <<>>
    /\ task_contacts = {}
    /\ history = <<>>
    /\ ai_requests = <<>>
    /\ inflight = NoRequests
    /\ hits = NoHits
    /\ resp = Response("init", 0, "", 0, NoToken, NoReq)

NextAuth ==
    \/ \E w \in OneWorker, body \in AuthBodies : register_user(w, body)
    \/ \E w \in OneWorker : register_user_email(w)
    \/ \E w \in OneWorker : register_user_username(w)
    \/ \E w \in OneWorker : register_user_commit(w)
    \/ \E w \in OneWorker, x \in LoginNames, password \in LoginPasswords : login(w, x, password)
    \/ \E w \in OneWorker : login_authenticate(w)
    \/ \E credentials \in Presentable : get_me(credentials)
    \/ \E refresh_token \in Presentable : refresh(refresh_token)
    \/ logout
    \/ \E w \in OneWorker, credentials \in Presentable, body \in DeactivateBodies :
          update_me(w, credentials, body)
    \/ \E w \in OneWorker : update_me_commit(w)
    \/ \E w \in OneWorker, credentials \in Presentable, user_id \in 1..MaxUsers :
          delete_user_route(w, credentials, user_id)
    \/ Tick

SpecAuth == InitAuth /\ [][NextAuth]_vars

\* users who share a name: the username of one is the email of the other
NextLockout ==
    \/ \E w \in OneWorker, body \in SharedNameBodies : register_user(w, body)
    \/ \E w \in OneWorker : register_user_email(w)
    \/ \E w \in OneWorker : register_user_username(w)
    \/ \E w \in OneWorker : register_user_commit(w)
    \/ \E w \in OneWorker, x \in SharedNames, password \in SharedNamePasswords :
          login(w, x, password)
    \/ \E w \in OneWorker : login_authenticate(w)
    \/ \E credentials \in Presentable : get_me(credentials)
    \/ \E refresh_token \in Presentable : refresh(refresh_token)
    \/ \E w \in OneWorker, credentials \in Presentable, body \in DeactivateBodies :
          update_me(w, credentials, body)
    \/ \E w \in OneWorker : update_me_commit(w)
    \/ Tick

SpecLockout == InitAuth /\ [][NextLockout]_vars

\* registrations alone, with emails and usernames that differ in letter case
NextRegister ==
    \/ \E w \in OneWorker, body \in RegisterBodies : register_user(w, body)
    \/ \E w \in OneWorker : register_user_email(w)
    \/ \E w \in OneWorker : register_user_username(w)
    \/ \E w \in OneWorker : register_user_commit(w)
    \/ Tick

SpecRegister == InitAuth /\ [][NextRegister]_vars

----------------------------------------------------------------------------
(* Properties of the authentication service *)

\* routes that depend on get_current_user
ProtectedOps == {"get_me", "update_me", "delete_user"}

\* the token is validly signed with SECRET_KEY and has not expired at t
ValidAt(token, t) ==
    /\ token.present
    /\ token.wellformed
    /\ token.key = SECRET_KEY
    /\ token.exp >= t

\* the user the token names, 0 when it names no stored user
SubjectOf(token) ==
    IF token.present /\ token.wellformed /\ Len(token.sub) > 0 /\ int(token.sub) \in DOMAIN users
    THEN int(token.sub)
    ELSE 0

\* C2: a token whose type is 'refresh' is never accepted by get_current_user:
\* a protected route that receives one as credential answers 401, even when
\* the token is validly signed, unexpired and names an active user.
C2_RefreshTokenIsRejected ==
    (resp.op \in ProtectedOps /\ resp.cred.present /\ resp.cred.typ = "refresh")
        => resp.status = 401

\* C3: after a successful login, a request to a protected route that carries
\* only the access_token cookie set by that login (no Authorization header)
\* is authenticated as the user who logged in.
C3_CookieAuthenticates ==
    ( /\ resp.op = "get_me"
      /\ ~resp.cred.present
      /\ ValidAt(jar.access_token, now)
      /\ jar.access_token.typ = "access"
      /\ SubjectOf(jar.access_token) # 0
      /\ users[SubjectOf(jar.access_token)].is_active )
        => (resp.status = 200 /\ resp.user = SubjectOf(jar.access_token))

\* C4: a request to a protected route with no credential, or with a token
\* that is malformed, signed with another key or expired, is answered 401 and
\* changes no stored state.
C4_InvalidCredentialIs401 ==
    [][ (resp'.op \in ProtectedOps /\ ~ValidAt(resp'.cred, now))
            => ( /\ resp'.status = 401
                 /\ users' = users
                 /\ contacts' = contacts
                 /\ tasks' = tasks
                 /\ task_contacts' = task_contacts
                 /\ history' = history ) ]_vars

\* PUT /users/me was refused with 401 for a token of this server that expired
C4_Witness ==
    /\ resp.op = "update_me"
    /\ resp.status = 401
    /\ resp.cred.present
    /\ resp.cred.wellformed
    /\ resp.cred.key = SECRET_KEY
    /\ resp.cred.exp < now

\* C5: POST /auth/refresh succeeds only when the refresh_token cookie is
\* validly signed, unexpired, of type 'refresh' and names an existing active
\* user; it then sets a new access token for that same user.  In every other
\* case it answers 401 and sets no cookie.
C5_RefreshAcceptance ==
    [][ resp'.op = "refresh" =>
          LET token == resp'.cred
              good == /\ ValidAt(token, now)
                      /\ token.typ = "refresh"
                      /\ SubjectOf(token) # 0
                      /\ users[SubjectOf(token)].is_active
          IN IF good
             THEN /\ resp'.status = 200
                  /\ resp'.user = SubjectOf(token)
                  /\ ValidAt(jar'.access_token, now)
                  /\ jar'.access_token.typ = "access"
                  /\ jar'.access_token.sub = token.sub
                  /\ jar'.access_token.exp = now + ACCESS_TOKEN_EXPIRE_MINUTES
                  /\ jar'.refresh_token = jar.refresh_token
             ELSE /\ resp'.status = 401
                  /\ jar' = jar ]_vars

\* a refresh succeeded after the access token of the login had expired
C5_Witness ==
    /\ resp.op = "refresh"
    /\ resp.status = 200
    /\ now > ACCESS_TOKEN_EXPIRE_MINUTES
    /\ ValidAt(jar.access_token, now)
    /\ jar.access_token.sub = resp.cred.sub

\* C6: once a user's is_active flag is false, no login, refresh or
\* protected-route request made from then on on behalf of that user succeeds,
\* even with tokens issued before the deactivation.  A login under a name of
\* that user is refused (401, or 429 by the rate limiter) and sets no cookie,
\* unless the name is also a name of another, active user whose password was
\* given: then it may log that other user in, never the inactive one.  A
\* refresh or a protected route is answered 400 or 401 at its first step,
\* writes nothing and sets no cookie, and no PUT /users/me of that user gets
\* past its look-ups.
C6_InactiveUserIsLockedOut ==
    [][ \A u \in DOMAIN users :
          ~users[u].is_active =>
            /\ ( /\ resp'.op = "login"
                 /\ resp'.req.username_or_email \in {users[u].username, users[u].email} )
                   => /\ resp'.status \in {200, 401, 429}
                      /\ resp'.user # u
                      /\ resp'.status # 200 => jar' = jar
                      /\ resp'.status = 200
                            => /\ users[resp'.user].is_active
                               /\ resp'.req.username_or_email
                                     \in {users[resp'.user].username, users[resp'.user].email}
                               /\ verify_password(resp'.req.password,
                                                  users[resp'.user].hashed_password)
                               /\ SubjectOf(jar'.access_token) = resp'.user
                               /\ SubjectOf(jar'.refresh_token) = resp'.user
                      /\ get_user_by_username_or_email(users, resp'.req.username_or_email) = {u}
                            => resp'.status \in {401, 429}
            /\ ( /\ resp'.op \in ProtectedOps \cup {"refresh"}
                 /\ SubjectOf(resp'.cred) = u
                 /\ inflight' = inflight )
                   => (resp'.status \in {400, 401} /\ resp'.user # u /\ users' = users /\ jar' = jar)
            /\ \A w \in Workers : StepOf(w, "update_me", "idle") => inflight'[w].user # u
      ]_vars

\* a deactivated user still holds an unexpired, validly signed refresh token
\* from before the deactivation, and the refresh was refused
C6_Witness ==
    /\ resp.op = "refresh"
    /\ resp.status = 401
    /\ resp.cred = jar.refresh_token
    /\ ValidAt(jar.refresh_token, now)
    /\ SubjectOf(jar.refresh_token) # 0
    /\ ~users[SubjectOf(jar.refresh_token)].is_active

\* C7: a registration that the rate limiter lets through and whose email or
\* username equals a stored one when compared case-insensitively fails with
\* a conflict and creates no row.
C7_CaseInsensitiveConflict ==
    [][ ( /\ resp'.op = "register"
          /\ resp'.status # 429
          /\ UserCreate(resp'.req).ok
          /\ \E u \in DOMAIN users :
                \/ Lower(users[u].email) = Lower(resp'.req.email)
                \/ Lower(users[u].username) = Lower(resp'.req.username) )
            => (resp'.status \in {400, 409} /\ users' = users) ]_vars

----------------------------------------------------------------------------
(* schemas/task.py *)

\* A datetime as pydantic parsed it: t is the instant in minutes, aware says
\* whether the text carried a UTC offset (tzinfo is set).

\* v <= datetime.now(): datetime.now() is naive, and comparing an aware
\* datetime with it raises TypeError
validate_future_date(v, t) ==
    IF v.aware THEN "TypeError"
    ELSE IF v.t <= t THEN "ValueError"
    ELSE "ok"

\* TaskCreate.contact_ids, TaskContactsAdd, TaskContactsRemove: a list of at
\* least one id; the validator returns list(set(v)).
validate_contact_ids(v) ==
    IF Len(v) < 1 THEN [ok |-> FALSE, contact_ids |-> {}]
    ELSE [ok |-> TRUE, contact_ids |-> Range(v)]

\* TaskBase.validate_tags and TaskUpdate.validate_tags_update: at most 10
\* tags of at most 30 characters, none blank; the tags are returned stripped
validate_tags(v) ==
    [ok |-> /\ ~(Len(v) > 10)
            /\ \A i \in DOMAIN v : ~(Len(v[i]) > 30) /\ strip(v[i]) # <<>>,
     tags |-> [i \in DOMAIN v |-> strip(v[i])]]

TaskStatusEnum == {"pendiente", "en_progreso", "finalizado", "enviada", "cancelada"}

\* the title the task bodies of the clients carry
Title == <<"A", "v", "i", "s", "o">>

\* TaskCreate(**body) at server time t; the body carries the title above, no
\* description and no tags (None is written as the empty list:
\* tags_list_to_string gives "" for both).  pydantic collects the ValueErrors
\* of the fields into one ValidationError; a TypeError leaves the validation
\* at once and is no validation error.
TaskCreate(body, t) ==
    LET date == validate_future_date(body.scheduled_datetime, t)
        ids == validate_contact_ids(body.contact_ids)
    IN
    [error |-> IF date = "TypeError" THEN "TypeError"
               ELSE IF date = "ValueError" \/ ~ids.ok THEN "ValidationError"
               ELSE "",
     title |-> Title,
     description |-> <<>>,
     scheduled_datetime |-> body.scheduled_datetime,
     tags |-> <<>>,
     contact_ids |-> ids.contact_ids]

\* the fields TaskUpdate declares; any other key of the body is dropped
TaskUpdateFields ==
    {"title", "description", "scheduled_datetime", "tags", "status", "is_sent", "sent_at",
     "add_contact_ids", "remove_contact_ids"}

\* the value the body gives to a key, none when the body does not hold it
Sent(body, key, none) == IF key \in DOMAIN body THEN body[key] ELSE none

\* TaskUpdate(**body) at server time t; body.set names the keys the body
\* carries.  title has 3 to 200 characters, description at most 2000,
\* scheduled_datetime must be later than the server clock, tags pass
\* validate_tags_update, status is a member of TaskStatusEnum.  The result is
\* model_dump(exclude_unset=True).
TaskUpdate(body, t) ==
    LET given == body.set \cap TaskUpdateFields
        title == Sent(body, "title", <<>>)
        description == Sent(body, "description", <<>>)
        scheduled_datetime == Sent(body, "scheduled_datetime", [t |-> 0, aware |-> FALSE])
        date == IF "scheduled_datetime" \in given
                THEN validate_future_date(scheduled_datetime, t) ELSE "ok"
        tags == IF "tags" \in given THEN validate_tags(body.tags)
                ELSE [ok |-> TRUE, tags |-> <<>>]
        status == Sent(body, "status", "pendiente")
    IN
    [error |-> IF date = "TypeError" THEN "TypeError"
               ELSE IF \/ "title" \in given /\ (Len(title) < 3 \/ Len(title) > 200)
                       \/ "description" \in given /\ Len(description) > 2000
                       \/ date = "ValueError"
                       \/ ~tags.ok
                       \/ "status" \in given /\ status \notin TaskStatusEnum
               THEN "ValidationError"
               ELSE "",
     set |-> given,
     title |-> title,
     description |-> description,
     scheduled_datetime |-> scheduled_datetime,
     tags |-> tags.tags,
     status |-> status,
     is_sent |-> Sent(body, "is_sent", FALSE),
     sent_at |-> Sent(body, "sent_at", [t |-> 0, aware |-> FALSE]),
     contact_ids |-> Sent(body, "contact_ids", {})]

----------------------------------------------------------------------------
(* schemas/contact.py *)

ChannelTypeEnum == {"whatsapp", "email", "telegram"}

\* a validator that takes a whatsapp number without looking at its first
\* character
validate_channel_value_any_prefix(v, channel_type) ==
    IF channel_type = "whatsapp"
    THEN LET w == strip(v)
             phone_digits == str_replace(str_replace(slice_1(w), " "), "-")
         IN [ok |-> /\ isdigit(phone_digits)
                    /\ ~(Len(phone_digits) < 10 \/ Len(phone_digits) > 15),
             value |-> w]
    ELSE [ok |-> TRUE, value |-> v]

\* ContactCreate.validate_channel_value.  channel_type is "None" when the
\* field did not validate.  The result holds the value the validator returns.
validate_channel_value(v, channel_type) ==
    IF channel_type = "whatsapp"
    THEN LET w == strip(v)
             phone_digits == str_replace(str_replace(slice_1(w), " "), "-")
         IN [ok |-> /\ startswith(w, "+")
                    /\ isdigit(phone_digits)
                    /\ ~(Len(phone_digits) < 10 \/ Len(phone_digits) > 15),
             value |-> w]
    ELSE IF channel_type = "email"
    THEN LET e == Lower(strip(v)) IN
         [ok |-> /\ ~("@" \notin Range(e) \/ "." \notin Range(split_1(e, "@")))
                 /\ " " \notin Range(e),
          value |-> e]
    ELSE IF channel_type = "telegram"
    THEN LET t == strip(v)
             username == slice_1(t)
         IN [ok |-> /\ startswith(t, "@")
                    /\ ~(Len(username) < 5)
                    /\ isalnum(str_replace(username, "_")),
             value |-> t]
    ELSE [ok |-> TRUE, value |-> v]

\* ContactCreate(**body): channel_type must be a member of the enum,
\* channel_value has 3 to 255 characters and passes the validator
ContactCreate(body) ==
    LET type_ok == body.channel_type \in ChannelTypeEnum
        length_ok == Len(body.channel_value) >= 3 /\ Len(body.channel_value) <= 255
        checked == IF length_ok
                   THEN validate_channel_value(body.channel_value,
                            IF type_ok THEN body.channel_type ELSE "None")
                   ELSE [ok |-> FALSE, value |-> body.channel_value]
    IN [ok |-> type_ok /\ checked.ok,
        channel_type |-> body.channel_type,
        channel_value |-> checked.value]

\* ContactUpdate.validate_channel_value: no validation when the body carries
\* no channel_type
validate_channel_value_update(v, channel_type) ==
    IF channel_type = "None"
    THEN [ok |-> TRUE, value |-> v]
    ELSE IF channel_type = "whatsapp"
    THEN LET w == strip(v)
             phone_digits == str_replace(str_replace(slice_1(w), " "), "-")
         IN [ok |-> /\ startswith(w, "+")
                    /\ ~( \/ ~isdigit(phone_digits)
                          \/ Len(phone_digits) < 10
                          \/ Len(phone_digits) > 15 ),
             value |-> w]
    ELSE IF channel_type = "email"
    THEN LET e == Lower(strip(v)) IN
         [ok |-> ~( \/ "@" \notin Range(e)
                    \/ "." \notin Range(split_1(e, "@"))
                    \/ " " \in Range(e) ),
          value |-> e]
    ELSE LET t == strip(v) IN
         [ok |-> /\ ~(~startswith(t, "@") \/ Len(t) < 6)
                 /\ isalnum(str_replace(slice_1(t), "_")),
          value |-> t]

\* ContactUpdate(**body); body.set names the fields the body carries.  The
\* result is model_dump(exclude_unset=True).
ContactUpdate(body) ==
    LET type_given == "channel_type" \in body.set
        type_ok == type_given => body.channel_type \in ChannelTypeEnum
        value_given == "channel_value" \in body.set
        length_ok == Len(body.channel_value) >= 3 /\ Len(body.channel_value) <= 255
        checked == IF ~value_given THEN [ok |-> TRUE, value |-> body.channel_value]
                   ELSE IF ~length_ok THEN [ok |-> FALSE, value |-> body.channel_value]
                   ELSE validate_channel_value_update(body.channel_value,
                            IF type_given /\ type_ok THEN body.channel_type ELSE "None")
    IN [ok |-> type_ok /\ checked.ok,
        set |-> body.set,
        channel_type |-> body.channel_type,
        channel_value |-> checked.value,
        is_active |-> body.is_active]

----------------------------------------------------------------------------
(* crud/task.py, crud/contact.py, crud/task_history.py.                    *)
(* db is the committed database as the request's session sees it:          *)
(* [contacts, tasks, task_contacts].  A CRUD function returns the database *)
(* it committed, or raised = TRUE and the database untouched when it       *)
(* raised before its commit.                                               *)

Db == [contacts |-> contacts, tasks |-> tasks, task_contacts |-> task_contacts]

TaskContacts(db, task_id) == {c \in DOMAIN db.contacts : <<task_id, c>> \in db.task_contacts}

\* the contact query without the filter on Contact.user_id
OwnedActiveContacts_any_owner(db, user_id, contact_ids) ==
    {c \in DOMAIN db.contacts : c \in contact_ids /\ db.contacts[c].is_active}

\* db.query(Contact).filter(Contact.id.in_(contact_ids),
\*     Contact.user_id == user_id, Contact.is_active == True).all()
OwnedActiveContacts(db, user_id, contact_ids) ==
    {c \in DOMAIN db.contacts :
        c \in contact_ids /\ db.contacts[c].user_id = user_id /\ db.contacts[c].is_active}

get_task_by_id(db, task_id, user_id) ==
    {t \in DOMAIN db.tasks : t = task_id /\ db.tasks[t].user_id = user_id}

get_contact_by_id(db, contact_id, user_id) ==
    {c \in DOMAIN db.contacts : c = contact_id /\ db.contacts[c].user_id = user_id}

\* tags_list_to_string: "" for None and for the empty list
tags_list_to_string(tags) == IF tags = <<>> THEN <<>> ELSE join(",", tags)

\* Task.get_tags_list (models/task.py)
get_tags_list(tags) ==
    IF tags = <<>> THEN <<>>
    ELSE LET pieces == split(tags, ",")
             stripped == [i \in DOMAIN pieces |-> strip(pieces[i])]
         IN SelectSeq(stripped, LAMBDA tag : tag # <<>>)

\* the contact query of create_task without the comparison of the two lengths
create_task_query_unchecked(db, user_id, contact_ids) ==
    [raised |-> FALSE, contacts |-> OwnedActiveContacts(db, user_id, contact_ids)]

\* create_task up to db.add: the contact query and the comparison of the
\* number of rows with the number of ids; the ValueError is raised before
\* anything is written
create_task_query(db, user_id, contact_ids) ==
    LET found == OwnedActiveContacts(db, user_id, contact_ids) IN
    [raised |-> Cardinality(found) # Cardinality(contact_ids), contacts |-> found]

\* the row db.add(db_task) inserts
NewTask(task, user_id, status) ==
    [user_id |-> user_id, status |-> status,
     title |-> task.title, description |-> task.description,
     scheduled_datetime |-> task.scheduled_datetime,
     tags |-> tags_list_to_string(task.tags),
     is_sent |-> FALSE, sent_at |-> <<>>, is_active |-> TRUE]

\* the INSERT of a row of task_contacts fails on its foreign key when the
\* contact row is gone, and on the primary key when the link is stored
LinkRefused(db, task_id, c) ==
    c \notin DOMAIN db.contacts \/ <<task_id, c>> \in db.task_contacts

\* create_task from db.add to db.commit, on the database as it is committed
\* then: the INSERT of the task, the INSERT of one link for every contact
\* the query loaded, and the commit.  raised is the IntegrityError of a
\* link whose contact was deleted after the query; the transaction is then
\* rolled back.  Ids are numbered in the order of the commits.
create_task(db, task, user_id, loaded) ==
    LET id == Cardinality(DOMAIN db.tasks) + 1 IN
    IF \E c \in loaded : LinkRefused(db, id, c)
    THEN [raised |-> TRUE, id |-> 0, db |-> db]
    ELSE [raised |-> FALSE, id |-> id,
          db |-> [db EXCEPT
                    !.tasks = [t \in DOMAIN db.tasks \cup {id} |->
                                 IF t = id THEN NewTask(task, user_id, "pendiente")
                                 ELSE db.tasks[t]],
                    !.task_contacts = @ \cup {<<id, c>> : c \in loaded}]]

\* the columns of tasks that TaskUpdate can name
TaskUpdateColumns ==
    {"title", "description", "scheduled_datetime", "tags", "status", "is_sent", "sent_at"}

\* the value the setattr loop of update_task gives to a column
ColumnValue(update_data, field) ==
    CASE field = "title" -> update_data.title
      [] field = "description" -> update_data.description
      [] field = "scheduled_datetime" -> update_data.scheduled_datetime
      [] field = "tags" -> tags_list_to_string(update_data.tags)
      [] field = "status" -> update_data.status
      [] field = "is_sent" -> update_data.is_sent
      [] field = "sent_at" -> <<update_data.sent_at.t>>

\* update_task up to the setattr loop: the task is looked up; a contact_ids
\* key in the dump would load the contacts it names and raise ValueError
\* when one is missing.  loaded is the row the session holds.
update_task_query(db, task_id, user_id, update_data) ==
    IF get_task_by_id(db, task_id, user_id) = {}
    THEN [raised |-> FALSE, found |-> FALSE,
          replace |-> FALSE, contacts |-> {}, loaded |-> <<>>]
    ELSE
    LET replace == "contact_ids" \in update_data.set
        found == OwnedActiveContacts(db, user_id, update_data.contact_ids)
    IN
    [raised |-> replace /\ Cardinality(found) # Cardinality(update_data.contact_ids),
     found |-> TRUE, replace |-> replace, contacts |-> found, loaded |-> db.tasks[task_id]]

\* whether the flush writes a column the setattr loop has set: it does when
\* the new value differs from the value the session loaded.  The DateTime
\* columns keep the offset, so the loaded value carries one and a datetime
\* sent without offset never equals it; scheduled_datetime has no offset
\* once it is validated.
Modified(loaded, update_data, field) ==
    CASE field = "scheduled_datetime" -> TRUE
      [] field = "sent_at" ->
            ~update_data.sent_at.aware \/ <<update_data.sent_at.t>> # loaded.sent_at
      [] OTHER -> ColumnValue(update_data, field) # loaded[field]

\* update_task from the setattr loop to db.commit, on the database as it is
\* committed then.  The UPDATE carries the modified columns, whatever other
\* requests have committed to the row since it was loaded; add_contact_ids
\* and remove_contact_ids are set as plain attributes of the object and
\* reach no column.
update_task(db, task_id, q, update_data) ==
    LET written == {field \in update_data.set \cap TaskUpdateColumns :
                       Modified(q.loaded, update_data, field)}
    IN
    [db EXCEPT
       !.task_contacts =
           IF q.replace
           THEN {l \in @ : l[1] # task_id} \cup {<<task_id, c>> : c \in q.contacts}
           ELSE @,
       !.tasks[task_id] =
           [column \in DOMAIN @ |->
               IF column \in written THEN ColumnValue(update_data, column) ELSE @[column]]]

\* delete_task from the two assignments to db.commit, on the database as it
\* is committed then; loaded is the row get_task_by_id returned.  The UPDATE
\* carries status only when the row was loaded with another status, and
\* is_active only when it was loaded active.
delete_task(db, task_id, loaded) ==
    [db EXCEPT !.tasks[task_id].status = IF loaded.status # "cancelada" THEN "cancelada" ELSE @,
               !.tasks[task_id].is_active = IF loaded.is_active THEN FALSE ELSE @]

\* add_contacts_to_task, the contact query and the comparison of the number
\* of rows with the number of ids
add_contacts_to_task_query(db, user_id, contact_ids) ==
    LET found == OwnedActiveContacts(db, user_id, contact_ids) IN
    [raised |-> Cardinality(found) # Cardinality(contact_ids), contacts |-> found]

\* add_contacts_to_task, db.commit(): the flush inserts one link for every
\* appended contact into the database as it is committed then.  raised is
\* the IntegrityError of a link whose contact is gone or that another
\* request has stored meanwhile.
add_contacts_to_task(db, task_id, new) ==
    IF \E c \in new : LinkRefused(db, task_id, c)
    THEN [raised |-> TRUE, db |-> db]
    ELSE [raised |-> FALSE,
          db |-> [db EXCEPT !.task_contacts = @ \cup {<<task_id, c>> : c \in new}]]

\* remove_contacts_from_task without the check of the minimum
remove_contacts_from_task_unchecked(loaded, contact_ids) ==
    [raised |-> FALSE, contacts |-> {c \in loaded : c \notin contact_ids}]

\* remove_contacts_from_task between the load of db_task.contacts and
\* db.commit(): the filtered list is assigned to the collection in the
\* session and its length is tested; when the test raises, the session is
\* closed without a commit
remove_contacts_from_task(loaded, contact_ids) ==
    LET remaining == {c \in loaded : c \notin contact_ids} IN
    [raised |-> Cardinality(remaining) < 1, contacts |-> remaining]

create_contact(db, seq, contact, user_id) ==
    [db EXCEPT !.contacts = [c \in DOMAIN db.contacts \cup {seq + 1} |->
                                IF c = seq + 1
                                THEN [user_id |-> user_id,
                                      channel_type |-> contact.channel_type,
                                      channel_value |-> contact.channel_value,
                                      is_active |-> TRUE]
                                ELSE db.contacts[c]]]

\* the columns the flush of update_contact writes: setattr with the value
\* the session holds leaves the attribute unmodified
ContactChangedColumns(loaded, update_data) ==
    {field \in update_data.set \cap {"is_active", "channel_type", "channel_value"} :
        update_data[field] # loaded[field]}

\* update_contact from the setattr loop to db.commit, on the database as it
\* is committed then; loaded is the row get_contact_by_id returned.  With no
\* changed column there is no UPDATE.  When the row has been deleted since,
\* the UPDATE matches no row and the flush raises StaleDataError.
update_contact(db, contact_id, loaded, update_data) ==
    LET written == ContactChangedColumns(loaded, update_data) IN
    IF written = {}
    THEN [raised |-> FALSE, db |-> db]
    ELSE IF contact_id \notin DOMAIN db.contacts
    THEN [raised |-> TRUE, db |-> db]
    ELSE [raised |-> FALSE,
          db |-> [db EXCEPT
                    !.contacts[contact_id] =
                        [column \in DOMAIN @ |->
                            IF column \in written THEN update_data[column] ELSE @[column]]]]

\* delete_contact from the assignment to db.commit: is_active = False is an
\* UPDATE only when the session loaded the row as active, and that UPDATE
\* raises StaleDataError when the row has been deleted since
delete_contact(db, contact_id, loaded) ==
    IF ~loaded.is_active
    THEN [raised |-> FALSE, db |-> db]
    ELSE IF contact_id \notin DOMAIN db.contacts
    THEN [raised |-> TRUE, db |-> db]
    ELSE [raised |-> FALSE, db |-> [db EXCEPT !.contacts[contact_id].is_active = FALSE]]

\* hard_delete_contact, the flush of db.commit() after the load of
\* db_contact.tasks: loaded holds the links the session has loaded.  The
\* flush deletes those rows of task_contacts and then the row of the
\* contact, whose ON DELETE CASCADE takes the links stored since.  stale
\* tells that a loaded link is gone, so that its DELETE matches fewer rows
\* than expected.  A DELETE of the contact that matches no row, the row
\* having been deleted since, is a warning only.
hard_delete_contact(db, contact_id, loaded) ==
    [stale |-> ~(loaded \subseteq db.task_contacts),
     db |-> [db EXCEPT
               !.contacts = [c \in DOMAIN db.contacts \ {contact_id} |-> db.contacts[c]],
               !.task_contacts = {l \in @ : l[2] # contact_id}]]

\* a history that keeps only the latest entry
create_history_entry_latest_only(h, task_id, user_id, action, created_at) ==
    <<[task_id |-> task_id, user_id |-> user_id, action |-> action,
       created_at |-> created_at]>>

\* create_history_entry: the row is inserted and committed; created_at is
\* the column's server default now(), the time at which the transaction of
\* the INSERT began
create_history_entry(h, task_id, user_id, action, created_at) ==
    Append(h, [task_id |-> task_id, user_id |-> user_id, action |-> action,
               created_at |-> created_at])

\* is_active is the query parameter as sent: "true", "false", or "None" when
\* it is absent
get_contacts_by_user(db, user_id, is_active) ==
    {c \in DOMAIN db.contacts :
        /\ db.contacts[c].user_id = user_id
        /\ (is_active # "None" => db.contacts[c].is_active = (is_active = "true"))}

\* called without status, is_sent, tags, date_from and date_to
get_tasks_by_user(db, user_id) ==
    {t \in DOMAIN db.tasks : db.tasks[t].user_id = user_id}

\* change_task_status from the assignment to db.commit, on the database as
\* it is committed then; loaded is the row get_task_by_id returned.  The
\* UPDATE carries status only when the row was loaded with another status.
change_task_status(db, task_id, loaded, new_status) ==
    [db EXCEPT !.tasks[task_id].status = IF new_status # loaded.status THEN new_status ELSE @]

\* mark_task_as_sent from the assignments to db.commit; loaded is the row
\* the query returned.  sent_at = datetime.utcnow() has no offset and is
\* always written; is_sent and status are written when they differ from the
\* loaded values.
mark_task_as_sent(db, task_id, loaded, t) ==
    [db EXCEPT !.tasks[task_id].is_sent = IF ~loaded.is_sent THEN TRUE ELSE @,
               !.tasks[task_id].sent_at = <<t>>,
               !.tasks[task_id].status = IF loaded.status # "enviada" THEN "enviada" ELSE @]

\* ORDER BY created_at DESC over the rows at the positions named.  No two
\* rows have the same created_at: every transaction has its own timestamp.
RECURSIVE order_by_created_at_desc(_, _)
order_by_created_at_desc(h, rows) ==
    IF rows = {} THEN <<>>
    ELSE LET first == CHOOSE i \in rows :
                         \A j \in rows : \/ h[j].created_at < h[i].created_at
                                         \/ (h[j].created_at = h[i].created_at /\ j <= i)
         IN <<h[first]>> \o order_by_created_at_desc(h, rows \ {first})

\* get_history_by_task, the second query: the rows of the task, newest first
get_history_by_task(h, task_id) ==
    order_by_created_at_desc(h, {i \in DOMAIN h : h[i].task_id = task_id})

----------------------------------------------------------------------------
(* Requests of the task and contact routes *)

\* id lists: every set of contact ids in ascending order, and every list that
\* names one id twice
Ascending(ids) ==
    IF ids = {} THEN <<>>
    ELSE LET top == CHOOSE c \in ids : \A d \in ids : d <= c
         IN SelectSeq([i \in 1..(top + 1) |-> i - 1], LAMBDA c : c \in ids)

IdLists ==
    {Ascending(ids) : ids \in SUBSET (1..MaxContacts)} \cup
    {<<c, c>> : c \in 1..MaxContacts}

\* a scheduled_datetime one minute ahead of the server clock, without offset
FutureDates == {[t |-> now + 1, aware |-> FALSE]}

\* scheduled_datetime values before, at and after the server clock, with and
\* without a UTC offset
ScheduleInputs == [t : {now - 1, now, now + 1}, aware : BOOLEAN]

TaskUpdateBodies ==
    [set : {{"status"}}, status : {"en_progreso"}, contact_ids : {{}}]
    \cup
    [set : {{"contact_ids"}}, status : {"pendiente"}, contact_ids : {{}}]

\* PUT /tasks/{id} bodies with one key each: a status that is none of the
\* enumeration, is_sent, sent_at, a scheduled_datetime before and after the
\* server clock, a title of two and of three characters
TaskFieldBodies ==
    [set : {{"status"}}, status : {"archivada", "finalizado"}]
    \cup
    [set : {{"is_sent"}}, is_sent : {TRUE}]
    \cup
    [set : {{"sent_at"}}, sent_at : {[t |-> now, aware |-> FALSE]}]
    \cup
    [set : {{"scheduled_datetime"}},
     scheduled_datetime : [t : {now - 1, now + 2}, aware : {FALSE}]]
    \cup
    [set : {{"title"}}, title : {<<"A", "l">>, <<"A", "l", "a">>}]

\* the contact of the end-to-end example: email, a@x.io
ContactBodies ==
    {[channel_type |-> "email", channel_value |-> <<"a", "@", "x", ".", "i", "o">>]}

ContactUpdateBodies ==
    [set : {{"is_active"}}, is_active : {TRUE}, channel_type : {"email"},
     channel_value : {<<"a", "@", "x", ".", "i", "o">>}]

\* the bearer tokens the registered users hold
DataCredentials ==
    { create_access_token([sub |-> str(u), username |-> users[u].username], now) :
        u \in DOMAIN users }

ResponseWith(op, status, user, cred, req, body) ==
    [op |-> op, status |-> status, detail |-> "", user |-> user, cred |-> cred,
     req |-> req, body |-> body]

\* TaskResponse as the list and update routes build it: the columns of the
\* row and tags_list = task.get_tags_list()
TaskResponse(db, t) ==
    [id |-> t, status |-> db.tasks[t].status, is_active |-> db.tasks[t].is_active,
     tags_list |-> get_tags_list(db.tasks[t].tags)]

Commit(db) ==
    /\ contacts' = db.contacts
    /\ tasks' = db.tasks
    /\ task_contacts' = db.task_contacts

----------------------------------------------------------------------------
(* api/routes/tasks.py *)

\* a step that writes to no table
Reads ==
    /\ UNCHANGED <<ai_requests, hits>>
    /\ UNCHANGED authVars
    /\ UNCHANGED dataVars

\* the last step of a request: the worker is free and the response is sent
Answer(w, response) == Done(w) /\ resp' = response

\* a step after which the request goes on
GoOn(w, request) == Serve(w, request) /\ resp' = InProgress

\* the status FastAPI answers when the validation of the body ends with a
\* ValidationError (422) or leaves with another exception, which the global
\* exception handler answers (500)
StatusOf(error) ==
    IF error = "TypeError" THEN 500 ELSE IF error = "ValidationError" THEN 422 ELSE 200

\* the requests that append a history row after their own commit
HistoryOps == {"create_task", "add_contacts", "remove_contacts", "update_task_status"}

\* the history table has room for the rows of the requests being served and
\* for one more
HistoryRoom ==
    Len(history) + Cardinality({w \in Workers : /\ inflight[w].pc # "idle"
                                                /\ inflight[w].op \in HistoryOps})
        < MaxHistory

\* The transactions that insert history rows, numbered in the order they
\* began.  A session begins a transaction with its first statement after a
\* commit: the history row of a request is inserted in the transaction that
\* db.refresh began after the request's own commit, and now(), the default
\* of task_history.created_at, is the time at which that transaction began.
transaction_timestamp ==
    LET stamps == {history[i].created_at : i \in DOMAIN history} \cup
                  {inflight[w].began :
                      w \in {x \in Workers : "began" \in DOMAIN inflight[x]}} \cup {0}
    IN 1 + CHOOSE m \in stamps : \A s \in stamps : s <= m

ContactResponseError(contact) ==
    Len(contact.channel_value) < 3 \/ Len(contact.channel_value) > 255

\* ContactResponse validated from a row: ContactBase declares channel_value
\* with min_length 3 and max_length 255, and the response model checks the
\* stored value against them.  error tells that the validation failed; the
\* names the routes store have 2 to 100 characters and pass.
ContactResponse(db, c) ==
    [error |-> ContactResponseError(db.contacts[c]),
     id |-> c, is_active |-> db.contacts[c].is_active]

\* TaskWithContacts validated from the task the session holds: loaded is the
\* row as the session loaded it, and task.contacts is loaded from db when the
\* response model reads it.  The ORM object has no tags_list attribute: the
\* field takes its default, the empty list.  The validation fails when the
\* validation of one of the contacts does.
TaskWithContacts(db, t, loaded) ==
    LET linked == {ContactResponse(db, c) : c \in TaskContacts(db, t)} IN
    [error |-> \E contact \in linked : contact.error,
     id |-> t, status |-> loaded.status, is_active |-> loaded.is_active,
     tags_list |-> <<>>,
     contacts |-> linked]

\* POST /tasks up to the function body: get_current_user, then the body
create_task_route(w, credentials, scheduled_datetime, v) ==
    LET req == [scheduled_datetime |-> scheduled_datetime, contact_ids |-> v]
        task_in == TaskCreate(req, now)
    IN solve_dependencies(w, "create_task", credentials, req, StatusOf(task_in.error), task_in,
            /\ Cardinality(DOMAIN tasks) + Cardinality(Pending("create_task")) < MaxTasks
            /\ HistoryRoom)

\* crud.create_task up to db.add: the contact query; its ValueError is
\* answered with 400
create_task_read(w) ==
    LET request == inflight[w]
        q == create_task_query(Db, request.user, request.req.contact_ids)
    IN
    /\ request.pc = "authenticated"
    /\ request.op = "create_task"
    /\ Reads
    /\ IF q.raised
       THEN Answer(w, Response("create_task", 400, "contacts", request.user, request.cred,
                               request.raw))
       ELSE GoOn(w, Put(At(request, "read"), "loaded", q.contacts))

\* a commit of create_task that writes the history row in the same
\* transaction
create_task_commit_with_history(w) ==
    LET request == inflight[w]
        r == create_task(Db, request.req, request.user, request.loaded)
    IN
    /\ request.pc = "read"
    /\ request.op = "create_task"
    /\ ~r.raised
    /\ UNCHANGED <<ai_requests, hits>>
    /\ UNCHANGED authVars
    /\ contact_seq' = contact_seq
    /\ Commit(r.db)
    /\ history' = create_history_entry(history, r.id, request.user, "creada",
                                       transaction_timestamp)
    /\ GoOn(w, Put(At(request, "committed"), "task_id", r.id))

\* crud.create_task, the flush and the commit: the task and its links.  An
\* IntegrityError is no ValueError: the handler does not catch it and the
\* global exception handler answers 500.
create_task_commit(w) ==
    LET request == inflight[w]
        r == create_task(Db, request.req, request.user, request.loaded)
    IN
    /\ request.pc = "read"
    /\ request.op = "create_task"
    /\ UNCHANGED <<ai_requests, hits>>
    /\ UNCHANGED authVars
    /\ UNCHANGED <<contact_seq, history>>
    /\ IF r.raised
       THEN /\ UNCHANGED <<contacts, tasks, task_contacts>>
            /\ Answer(w, Response("create_task", 500, "IntegrityError", request.user,
                                  request.cred, request.raw))
       ELSE /\ Commit(r.db)
            /\ GoOn(w, Put(At(request, "committed"), "task_id", r.id))

\* crud.create_task, db.refresh: the SELECT of the new row begins the
\* session's next transaction
create_task_refresh(w) ==
    LET request == inflight[w] IN
    /\ request.pc = "committed"
    /\ request.op = "create_task"
    /\ Reads
    /\ GoOn(w, Put(At(request, "refreshed"), "began", transaction_timestamp))

\* POST /tasks, the second commit and the answer: create_history_entry, then
\* the response.  The history commit expires the task instance, so the dict
\* copied from task.__dict__ has none of the required fields (get_tags_list
\* reloads the row after the copy): TaskResponse raises a ValidationError, a
\* ValueError, which the handler answers with 400.
create_task_history(w) ==
    LET request == inflight[w] IN
    /\ request.pc = "refreshed"
    /\ request.op = "create_task"
    /\ UNCHANGED <<ai_requests, hits>>
    /\ UNCHANGED authVars
    /\ UNCHANGED <<contacts, contact_seq, tasks, task_contacts>>
    /\ history' = create_history_entry(history, request.task_id, request.user, "creada",
                                       request.began)
    /\ Answer(w, Response("create_task", 400, "response_model", request.user, request.cred,
                          request.raw))

\* GET /tasks up to the function body
list_tasks_route(w, credentials) ==
    solve_dependencies(w, "list_tasks", credentials, NoReq, 200, NoReq, TRUE)

\* GET /tasks, get_tasks_by_user and the response; history_count, which the
\* route reads from task.history, is not among the fields modelled
list_tasks_read(w) ==
    LET request == inflight[w] IN
    /\ request.pc = "authenticated"
    /\ request.op = "list_tasks"
    /\ Reads
    /\ Answer(w, ResponseWith("list_tasks", 200, request.user, request.cred, NoReq,
                  {TaskResponse(Db, t) : t \in get_tasks_by_user(Db, request.user)}))

\* GET /tasks/{task_id} up to the function body
get_task_route(w, credentials, task_id) ==
    solve_dependencies(w, "get_task", credentials, [id |-> task_id], 200, [id |-> task_id],
                       TRUE)

\* GET /tasks/{task_id}, get_task_by_id
get_task_read(w) ==
    LET request == inflight[w]
        task_id == request.req.id
    IN
    /\ request.pc = "authenticated"
    /\ request.op = "get_task"
    /\ Reads
    /\ IF get_task_by_id(Db, task_id, request.user) = {}
       THEN Answer(w, Response("get_task", 404, "", request.user, request.cred, request.raw))
       ELSE GoOn(w, Put(At(request, "loaded"), "loaded", tasks[task_id]))

\* GET /tasks/{task_id}, the response: TaskWithContacts reads task.contacts,
\* which the session loads then.  A response that fails its validation is
\* answered by the global exception handler with 500.
get_task_response(w) ==
    LET request == inflight[w]
        body == TaskWithContacts(Db, request.req.id, request.loaded)
    IN
    /\ request.pc = "loaded"
    /\ request.op = "get_task"
    /\ Reads
    /\ IF body.error
       THEN Answer(w, Response("get_task", 500, "ResponseValidationError", request.user,
                               request.cred, request.raw))
       ELSE Answer(w, ResponseWith("get_task", 200, request.user, request.cred, request.raw,
                                   body))

\* GET /tasks/{task_id}/history up to the function body
get_task_history_route(w, credentials, task_id) ==
    solve_dependencies(w, "get_task_history", credentials, [id |-> task_id], 200,
                       [id |-> task_id], TRUE)

\* get_history_by_task, the query of the task: no task of the user, no rows
get_task_history_task(w) ==
    LET request == inflight[w] IN
    /\ request.pc = "authenticated"
    /\ request.op = "get_task_history"
    /\ Reads
    /\ IF get_task_by_id(Db, request.req.id, request.user) = {}
       THEN Answer(w, ResponseWith("get_task_history", 200, request.user, request.cred,
                                   request.raw, <<>>))
       ELSE GoOn(w, At(request, "found"))

\* get_history_by_task, the query of the rows
get_task_history_read(w) ==
    LET request == inflight[w] IN
    /\ request.pc = "found"
    /\ request.op = "get_task_history"
    /\ Reads
    /\ Answer(w, ResponseWith("get_task_history", 200, request.user, request.cred,
                              request.raw, get_history_by_task(history, request.req.id)))

\* PUT /tasks/{task_id} up to the function body
update_task_route(w, credentials, task_id, raw) ==
    LET task_update == TaskUpdate(raw, now) IN
    solve_dependencies(w, "update_task", credentials, [id |-> task_id, raw |-> raw],
                       StatusOf(task_update.error), [id |-> task_id, task |-> task_update],
                       TRUE)

\* crud.update_task up to the setattr loop
update_task_read(w) ==
    LET request == inflight[w]
        q == update_task_query(Db, request.req.id, request.user, request.req.task)
    IN
    /\ request.pc = "authenticated"
    /\ request.op = "update_task"
    /\ Reads
    /\ IF ~q.found
       THEN Answer(w, Response("update_task", 404, "", request.user, request.cred,
                               request.raw))
       ELSE IF q.raised
       THEN Answer(w, Response("update_task", 400, "contacts", request.user, request.cred,
                               request.raw))
       ELSE GoOn(w, Put(At(request, "read"), "q", q))

\* crud.update_task, the setattr loop and the commit
update_task_commit(w) ==
    LET request == inflight[w] IN
    /\ request.pc = "read"
    /\ request.op = "update_task"
    /\ UNCHANGED <<ai_requests, hits>>
    /\ UNCHANGED authVars
    /\ UNCHANGED <<contact_seq, history>>
    /\ Commit(update_task(Db, request.req.id, request.q, request.req.task))
    /\ GoOn(w, At(request, "committed"))

\* crud.update_task, db.refresh, and the response, built from the row as the
\* refresh loaded it
update_task_refresh(w) ==
    LET request == inflight[w] IN
    /\ request.pc = "committed"
    /\ request.op = "update_task"
    /\ Reads
    /\ Answer(w, ResponseWith("update_task", 200, request.user, request.cred, request.raw,
                              TaskResponse(Db, request.req.id)))

\* POST /tasks/{task_id}/contacts up to the function body
add_contacts_route(w, credentials, task_id, v) ==
    LET body == validate_contact_ids(v) IN
    solve_dependencies(w, "add_contacts", credentials, NoReq,
                       IF body.ok THEN 200 ELSE 422,
                       [id |-> task_id, contact_ids |-> body.contact_ids], HistoryRoom)

\* add_contacts_to_task, get_task_by_id
add_contacts_task(w) ==
    LET request == inflight[w] IN
    /\ request.pc = "authenticated"
    /\ request.op = "add_contacts"
    /\ Reads
    /\ IF get_task_by_id(Db, request.req.id, request.user) = {}
       THEN Answer(w, Response("add_contacts", 404, "", request.user, request.cred, NoReq))
       ELSE GoOn(w, At(request, "found"))

\* add_contacts_to_task, the contact query; its ValueError is answered with
\* 400
add_contacts_read(w) ==
    LET request == inflight[w]
        q == add_contacts_to_task_query(Db, request.user, request.req.contact_ids)
    IN
    /\ request.pc = "found"
    /\ request.op = "add_contacts"
    /\ Reads
    /\ IF q.raised
       THEN Answer(w, Response("add_contacts", 400, "contacts", request.user, request.cred,
                               NoReq))
       ELSE GoOn(w, Put(At(request, "read"), "found", q.contacts))

\* add_contacts_to_task, the loop: db_task.contacts is loaded when the first
\* contact is tested against it, and the contacts it does not hold are
\* appended
add_contacts_load(w) ==
    LET request == inflight[w] IN
    /\ request.pc = "read"
    /\ request.op = "add_contacts"
    /\ Reads
    /\ GoOn(w, Put(At(request, "loaded"), "new",
                   request.found \ TaskContacts(Db, request.req.id)))

\* add_contacts_to_task, db.commit(): the links of the appended contacts.
\* The IntegrityError is caught by nothing and answered with 500.
add_contacts_commit(w) ==
    LET request == inflight[w]
        r == add_contacts_to_task(Db, request.req.id, request.new)
    IN
    /\ request.pc = "loaded"
    /\ request.op = "add_contacts"
    /\ UNCHANGED <<ai_requests, hits>>
    /\ UNCHANGED authVars
    /\ UNCHANGED <<contact_seq, history>>
    /\ IF r.raised
       THEN /\ UNCHANGED <<contacts, tasks, task_contacts>>
            /\ Answer(w, Response("add_contacts", 500, "IntegrityError", request.user,
                                  request.cred, NoReq))
       ELSE /\ Commit(r.db)
            /\ GoOn(w, At(request, "committed"))

\* add_contacts_to_task, db.refresh
add_contacts_refresh(w) ==
    LET request == inflight[w] IN
    /\ request.pc = "committed"
    /\ request.op = "add_contacts"
    /\ Reads
    /\ GoOn(w, Put(At(request, "refreshed"), "began", transaction_timestamp))

\* create_history_entry, committed on its own
add_contacts_history(w) ==
    LET request == inflight[w] IN
    /\ request.pc = "refreshed"
    /\ request.op = "add_contacts"
    /\ UNCHANGED <<ai_requests, hits>>
    /\ UNCHANGED authVars
    /\ UNCHANGED <<contacts, contact_seq, tasks, task_contacts>>
    /\ history' = create_history_entry(history, request.req.id, request.user,
                                       "contacto_agregado", request.began)
    /\ GoOn(w, At(request, "recorded"))

\* the response model reads the task, which the history commit has expired:
\* the session loads the row again
add_contacts_reload(w) ==
    LET request == inflight[w] IN
    /\ request.pc = "recorded"
    /\ request.op = "add_contacts"
    /\ Reads
    /\ GoOn(w, Put(At(request, "reloaded"), "loaded", tasks[request.req.id]))

\* the response model reads task.contacts, which the session loads then
add_contacts_response(w) ==
    LET request == inflight[w]
        body == TaskWithContacts(Db, request.req.id, request.loaded)
    IN
    /\ request.pc = "reloaded"
    /\ request.op = "add_contacts"
    /\ Reads
    /\ IF body.error
       THEN Answer(w, Response("add_contacts", 500, "ResponseValidationError", request.user,
                               request.cred, NoReq))
       ELSE Answer(w, ResponseWith("add_contacts", 200, request.user, request.cred, NoReq,
                                   body))

\* DELETE /tasks/{task_id}/contacts up to the function body
remove_contacts_route(w, credentials, task_id, v) ==
    LET body == validate_contact_ids(v) IN
    solve_dependencies(w, "remove_contacts", credentials, NoReq,
                       IF body.ok THEN 200 ELSE 422,
                       [id |-> task_id, contact_ids |-> body.contact_ids], HistoryRoom)

\* remove_contacts_from_task, get_task_by_id
remove_contacts_task(w) ==
    LET request == inflight[w] IN
    /\ request.pc = "authenticated"
    /\ request.op = "remove_contacts"
    /\ Reads
    /\ IF get_task_by_id(Db, request.req.id, request.user) = {}
       THEN Answer(w, Response("remove_contacts", 404, "", request.user, request.cred,
                               NoReq))
       ELSE GoOn(w, At(request, "found"))

\* remove_contacts_from_task, the load of db_task.contacts and the check:
\* the filtered list is assigned to the collection in the session and its
\* length is tested; a ValueError is answered with 400 and the session is
\* closed without a commit
remove_contacts_check(w) ==
    LET request == inflight[w]
        loaded == TaskContacts(Db, request.req.id)
        r == remove_contacts_from_task(loaded, request.req.contact_ids)
    IN
    /\ request.pc = "found"
    /\ request.op = "remove_contacts"
    /\ Reads
    /\ IF r.raised
       THEN Answer(w, Response("remove_contacts", 400, "min_contacts", request.user,
                               request.cred, NoReq))
       ELSE GoOn(w, Put(Put(At(request, "checked"), "loaded", loaded),
                        "contacts", r.contacts))

\* remove_contacts_from_task, db.commit(): the flush deletes the link rows of
\* the contacts taken out of the loaded collection.  When a row is already
\* gone the DELETE matches fewer rows than expected: the unit of work either
\* raises StaleDataError, which no handler catches, or goes on, depending on
\* the driver's rowcount support.
remove_contacts_commit(w) ==
    LET request == inflight[w]
        removed == {<<request.req.id, c>> : c \in request.loaded \ request.contacts}
    IN
    /\ request.pc = "checked"
    /\ request.op = "remove_contacts"
    /\ UNCHANGED <<ai_requests, hits>>
    /\ UNCHANGED authVars
    /\ UNCHANGED <<contacts, contact_seq, tasks, history>>
    /\ \/ /\ task_contacts' = task_contacts \ removed
          /\ GoOn(w, At(request, "committed"))
       \/ /\ ~(removed \subseteq task_contacts)
          /\ UNCHANGED task_contacts
          /\ Answer(w, Response("remove_contacts", 500, "StaleDataError", request.user,
                                request.cred, NoReq))

\* remove_contacts_from_task, db.refresh
remove_contacts_refresh(w) ==
    LET request == inflight[w] IN
    /\ request.pc = "committed"
    /\ request.op = "remove_contacts"
    /\ Reads
    /\ GoOn(w, Put(At(request, "refreshed"), "began", transaction_timestamp))

\* create_history_entry, committed on its own
remove_contacts_history(w) ==
    LET request == inflight[w] IN
    /\ request.pc = "refreshed"
    /\ request.op = "remove_contacts"
    /\ UNCHANGED <<ai_requests, hits>>
    /\ UNCHANGED authVars
    /\ UNCHANGED <<contacts, contact_seq, tasks, task_contacts>>
    /\ history' = create_history_entry(history, request.req.id, request.user,
                                       "contacto_eliminado", request.began)
    /\ GoOn(w, At(request, "recorded"))

\* the response model reads the task, which the history commit has expired
remove_contacts_reload(w) ==
    LET request == inflight[w] IN
    /\ request.pc = "recorded"
    /\ request.op = "remove_contacts"
    /\ Reads
    /\ GoOn(w, Put(At(request, "reloaded"), "loaded", tasks[request.req.id]))

\* the response model reads task.contacts, which the session loads then
remove_contacts_response(w) ==
    LET request == inflight[w]
        body == TaskWithContacts(Db, request.req.id, request.loaded)
    IN
    /\ request.pc = "reloaded"
    /\ request.op = "remove_contacts"
    /\ Reads
    /\ IF body.error
       THEN Answer(w, Response("remove_contacts", 500, "ResponseValidationError",
                               request.user, request.cred, NoReq))
       ELSE Answer(w, ResponseWith("remove_contacts", 200, request.user, request.cred, NoReq,
                                   body))

\* TaskStatusUpdate: status must be a member of TaskStatusEnum
TaskStatusUpdate(status) == [ok |-> status \in TaskStatusEnum, status |-> status]

\* PUT /tasks/{task_id}/status up to the function body
update_task_status_route(w, credentials, task_id, status) ==
    LET status_update == TaskStatusUpdate(status) IN
    solve_dependencies(w, "update_task_status", credentials,
                       [id |-> task_id, status |-> status],
                       IF status_update.ok THEN 200 ELSE 422,
                       [id |-> task_id, status |-> status_update.status], HistoryRoom)

\* change_task_status, get_task_by_id
update_task_status_read(w) ==
    LET request == inflight[w]
        task_id == request.req.id
    IN
    /\ request.pc = "authenticated"
    /\ request.op = "update_task_status"
    /\ Reads
    /\ IF get_task_by_id(Db, task_id, request.user) = {}
       THEN Answer(w, Response("update_task_status", 404, "", request.user, request.cred,
                               request.raw))
       ELSE GoOn(w, Put(At(request, "loaded"), "loaded", tasks[task_id]))

\* change_task_status, the assignment and the commit
update_task_status_commit(w) ==
    LET request == inflight[w] IN
    /\ request.pc = "loaded"
    /\ request.op = "update_task_status"
    /\ UNCHANGED <<ai_requests, hits>>
    /\ UNCHANGED authVars
    /\ UNCHANGED <<contact_seq, history>>
    /\ Commit(change_task_status(Db, request.req.id, request.loaded, request.req.status))
    /\ GoOn(w, At(request, "committed"))

\* change_task_status, db.refresh
update_task_status_refresh(w) ==
    LET request == inflight[w] IN
    /\ request.pc = "committed"
    /\ request.op = "update_task_status"
    /\ Reads
    /\ GoOn(w, Put(At(request, "refreshed"), "began", transaction_timestamp))

\* the second commit, create_history_entry, and the answer.  As in POST
\* /tasks, the history commit expires the task instance before the response
\* is built from task.__dict__: TaskResponse raises a ValidationError and the
\* handler answers 400 after both commits.
update_task_status_history(w) ==
    LET request == inflight[w] IN
    /\ request.pc = "refreshed"
    /\ request.op = "update_task_status"
    /\ UNCHANGED <<ai_requests, hits>>
    /\ UNCHANGED authVars
    /\ UNCHANGED <<contacts, contact_seq, tasks, task_contacts>>
    /\ history' = create_history_entry(history, request.req.id, request.user,
                                       "estado_cambiado", request.began)
    /\ Answer(w, Response("update_task_status", 400, "response_model", request.user,
                          request.cred, request.raw))

\* DELETE /tasks/{task_id} up to the function body
delete_task_route(w, credentials, task_id) ==
    solve_dependencies(w, "delete_task", credentials, NoReq, 200, [id |-> task_id], TRUE)

\* crud.delete_task, get_task_by_id
delete_task_read(w) ==
    LET request == inflight[w]
        task_id == request.req.id
    IN
    /\ request.pc = "authenticated"
    /\ request.op = "delete_task"
    /\ Reads
    /\ IF get_task_by_id(Db, task_id, request.user) = {}
       THEN Answer(w, Response("delete_task", 404, "", request.user, request.cred, NoReq))
       ELSE GoOn(w, Put(At(request, "loaded"), "loaded", tasks[task_id]))

\* crud.delete_task, the two assignments and the commit
delete_task_commit(w) ==
    LET request == inflight[w] IN
    /\ request.pc = "loaded"
    /\ request.op = "delete_task"
    /\ UNCHANGED <<ai_requests, hits>>
    /\ UNCHANGED authVars
    /\ UNCHANGED <<contact_seq, history>>
    /\ Commit(delete_task(Db, request.req.id, request.loaded))
    /\ Answer(w, Response("delete_task", 204, "", request.user, request.cred, NoReq))

\* The sender of the scheduled messages calls crud.mark_task_as_sent(db,
\* task_id); no route does.  The task is looked up by its id alone.
task_sent_read(w, task_id) ==
    /\ inflight[w].pc = "idle"
    /\ Reads
    /\ IF task_id \notin DOMAIN tasks
       THEN Answer(w, Response("mark_task_as_sent", 0, "", 0, NoToken, [id |-> task_id]))
       ELSE GoOn(w, [op |-> "mark_task_as_sent", pc |-> "loaded", id |-> task_id,
                     loaded |-> tasks[task_id]])

\* mark_task_as_sent, the three assignments and the commit
task_sent_commit(w) ==
    LET request == inflight[w] IN
    /\ request.pc = "loaded"
    /\ request.op = "mark_task_as_sent"
    /\ UNCHANGED <<ai_requests, hits>>
    /\ UNCHANGED authVars
    /\ UNCHANGED <<contact_seq, history>>
    /\ Commit(mark_task_as_sent(Db, request.id, request.loaded, now))
    /\ Answer(w, Response("mark_task_as_sent", 0, "", 0, NoToken, [id |-> request.id]))

----------------------------------------------------------------------------
(* api/routes/contacts.py *)

\* the creations of contacts that have not inserted their row
Uncommitted(op) ==
    {w \in Workers : inflight[w].pc = "authenticated" /\ inflight[w].op = op}

\* POST /contacts up to the function body
create_contact_route(w, credentials, body) ==
    LET contact_in == ContactCreate(body) IN
    solve_dependencies(w, "create_contact", credentials, NoReq,
                       IF contact_in.ok THEN 200 ELSE 422, contact_in,
                       contact_seq + Cardinality(Uncommitted("create_contact")) < MaxContacts)

\* crud.create_contact, db.add and db.commit
create_contact_commit(w) ==
    LET request == inflight[w] IN
    /\ request.pc = "authenticated"
    /\ request.op = "create_contact"
    /\ UNCHANGED <<ai_requests, hits>>
    /\ UNCHANGED authVars
    /\ history' = history
    /\ Commit(create_contact(Db, contact_seq, request.req, request.user))
    /\ contact_seq' = contact_seq + 1
    /\ GoOn(w, Put(At(request, "committed"), "contact_id", contact_seq + 1))

\* crud.create_contact, db.refresh, and the response.  The refresh of a row
\* that has been deleted since the commit raises InvalidRequestError, and a
\* response that fails the validation of ContactResponse raises
\* ResponseValidationError: the global exception handler answers both with
\* 500.
create_contact_refresh(w) ==
    LET request == inflight[w]
        contact_id == request.contact_id
    IN
    /\ request.pc = "committed"
    /\ request.op = "create_contact"
    /\ Reads
    /\ IF contact_id \notin DOMAIN contacts
       THEN Answer(w, Response("create_contact", 500, "InvalidRequestError", request.user,
                               request.cred, NoReq))
       ELSE IF ContactResponse(Db, contact_id).error
       THEN Answer(w, Response("create_contact", 500, "ResponseValidationError",
                               request.user, request.cred, NoReq))
       ELSE Answer(w, ResponseWith("create_contact", 201, request.user, request.cred, NoReq,
                                   ContactResponse(Db, contact_id)))

\* GET /contacts up to the function body
list_contacts_route(w, credentials, is_active) ==
    solve_dependencies(w, "list_contacts", credentials, [is_active |-> is_active], 200,
                       [is_active |-> is_active], TRUE)

\* GET /contacts, get_contacts_by_user and the response
list_contacts_read(w) ==
    LET request == inflight[w]
        body == {ContactResponse(Db, c) :
                    c \in get_contacts_by_user(Db, request.user, request.req.is_active)}
    IN
    /\ request.pc = "authenticated"
    /\ request.op = "list_contacts"
    /\ Reads
    /\ IF \E contact \in body : contact.error
       THEN Answer(w, Response("list_contacts", 500, "ResponseValidationError", request.user,
                               request.cred, request.raw))
       ELSE Answer(w, ResponseWith("list_contacts", 200, request.user, request.cred,
                                   request.raw, body))

\* GET /contacts/{contact_id} up to the function body
get_contact_route(w, credentials, contact_id) ==
    solve_dependencies(w, "get_contact", credentials, [id |-> contact_id], 200,
                       [id |-> contact_id], TRUE)

\* GET /contacts/{contact_id}, get_contact_by_id and the response
get_contact_read(w) ==
    LET request == inflight[w]
        contact_id == request.req.id
    IN
    /\ request.pc = "authenticated"
    /\ request.op = "get_contact"
    /\ Reads
    /\ IF get_contact_by_id(Db, contact_id, request.user) = {}
       THEN Answer(w, Response("get_contact", 404, "", request.user, request.cred,
                               request.raw))
       ELSE IF ContactResponse(Db, contact_id).error
       THEN Answer(w, Response("get_contact", 500, "ResponseValidationError", request.user,
                               request.cred, request.raw))
       ELSE Answer(w, ResponseWith("get_contact", 200, request.user, request.cred,
                                   request.raw, ContactResponse(Db, contact_id)))

\* PUT /contacts/{contact_id} up to the function body
update_contact_route(w, credentials, contact_id, body) ==
    LET contact_update == ContactUpdate(body) IN
    solve_dependencies(w, "update_contact", credentials, [id |-> contact_id],
                       IF contact_update.ok THEN 200 ELSE 422,
                       [id |-> contact_id, contact |-> contact_update], TRUE)

\* crud.update_contact, get_contact_by_id
update_contact_read(w) ==
    LET request == inflight[w]
        contact_id == request.req.id
    IN
    /\ request.pc = "authenticated"
    /\ request.op = "update_contact"
    /\ Reads
    /\ IF get_contact_by_id(Db, contact_id, request.user) = {}
       THEN Answer(w, Response("update_contact", 404, "", request.user, request.cred,
                               request.raw))
       ELSE GoOn(w, Put(At(request, "read"), "loaded", contacts[contact_id]))

\* crud.update_contact, the setattr loop and the commit.  The StaleDataError
\* of the flush is caught nowhere: 500.
update_contact_commit(w) ==
    LET request == inflight[w]
        r == update_contact(Db, request.req.id, request.loaded, request.req.contact)
    IN
    /\ request.pc = "read"
    /\ request.op = "update_contact"
    /\ UNCHANGED <<ai_requests, hits>>
    /\ UNCHANGED authVars
    /\ UNCHANGED <<contact_seq, history>>
    /\ Commit(r.db)
    /\ IF r.raised
       THEN Answer(w, Response("update_contact", 500, "StaleDataError", request.user,
                               request.cred, request.raw))
       ELSE GoOn(w, At(request, "committed"))

\* crud.update_contact, db.refresh, and the response, as in POST /contacts
update_contact_refresh(w) ==
    LET request == inflight[w]
        contact_id == request.req.id
    IN
    /\ request.pc = "committed"
    /\ request.op = "update_contact"
    /\ Reads
    /\ IF contact_id \notin DOMAIN contacts
       THEN Answer(w, Response("update_contact", 500, "InvalidRequestError", request.user,
                               request.cred, request.raw))
       ELSE IF ContactResponse(Db, contact_id).error
       THEN Answer(w, Response("update_contact", 500, "ResponseValidationError",
                               request.user, request.cred, request.raw))
       ELSE Answer(w, ResponseWith("update_contact", 200, request.user, request.cred,
                                   request.raw, ContactResponse(Db, contact_id)))

\* DELETE /contacts/{contact_id} up to the function body
delete_contact_route(w, credentials, contact_id) ==
    solve_dependencies(w, "delete_contact", credentials, [id |-> contact_id], 200,
                       [id |-> contact_id], TRUE)

\* crud.delete_contact, get_contact_by_id
delete_contact_read(w) ==
    LET request == inflight[w]
        contact_id == request.req.id
    IN
    /\ request.pc = "authenticated"
    /\ request.op = "delete_contact"
    /\ Reads
    /\ IF get_contact_by_id(Db, contact_id, request.user) = {}
       THEN Answer(w, Response("delete_contact", 404, "", request.user, request.cred,
                               request.raw))
       ELSE GoOn(w, Put(At(request, "read"), "loaded", contacts[contact_id]))

\* crud.delete_contact, the assignment and the commit
delete_contact_commit(w) ==
    LET request == inflight[w]
        r == delete_contact(Db, request.req.id, request.loaded)
    IN
    /\ request.pc = "read"
    /\ request.op = "delete_contact"
    /\ UNCHANGED <<ai_requests, hits>>
    /\ UNCHANGED authVars
    /\ UNCHANGED <<contact_seq, history>>
    /\ Commit(r.db)
    /\ Answer(w, Response("delete_contact", IF r.raised THEN 500 ELSE 204,
                          IF r.raised THEN "StaleDataError" ELSE "", request.user,
                          request.cred, request.raw))

\* DELETE /contacts/{contact_id}/permanent up to the function body
hard_delete_contact_route(w, credentials, contact_id) ==
    solve_dependencies(w, "hard_delete_contact", credentials, [id |-> contact_id], 200,
                       [id |-> contact_id], TRUE)

\* crud.hard_delete_contact, get_contact_by_id
hard_delete_contact_read(w) ==
    LET request == inflight[w] IN
    /\ request.pc = "authenticated"
    /\ request.op = "hard_delete_contact"
    /\ Reads
    /\ IF get_contact_by_id(Db, request.req.id, request.user) = {}
       THEN Answer(w, Response("hard_delete_contact", 404, "", request.user, request.cred,
                               request.raw))
       ELSE GoOn(w, At(request, "read"))

\* crud.hard_delete_contact, db.delete and the start of the flush of
\* db.commit(): Contact.tasks is a many-to-many relationship, and the unit of
\* work loads the collection of the contact it deletes
hard_delete_contact_load(w) ==
    LET request == inflight[w] IN
    /\ request.pc = "read"
    /\ request.op = "hard_delete_contact"
    /\ Reads
    /\ GoOn(w, Put(At(request, "loaded"), "loaded",
                   {l \in task_contacts : l[2] = request.req.id}))

\* crud.hard_delete_contact, the rest of the flush and the commit: the
\* DELETE of the loaded links, the DELETE of the contact.  When a loaded
\* link is already gone the DELETE matches fewer rows than expected: the
\* unit of work either raises StaleDataError, which no handler catches, so
\* that the transaction is rolled back and the answer is 500, or goes on,
\* depending on the driver's rowcount support.
hard_delete_contact_commit(w) ==
    LET request == inflight[w]
        r == hard_delete_contact(Db, request.req.id, request.loaded)
    IN
    /\ request.pc = "loaded"
    /\ request.op = "hard_delete_contact"
    /\ UNCHANGED <<ai_requests, hits>>
    /\ UNCHANGED authVars
    /\ UNCHANGED <<contact_seq, history>>
    /\ \/ /\ Commit(r.db)
          /\ Answer(w, Response("hard_delete_contact", 204, "", request.user, request.cred,
                                request.raw))
       \/ /\ r.stale
          /\ UNCHANGED <<contacts, tasks, task_contacts>>
          /\ Answer(w, Response("hard_delete_contact", 500, "StaleDataError", request.user,
                                request.cred, request.raw))

----------------------------------------------------------------------------
(* The task and contact service, with the users already registered *)

RegisteredUsers ==
    create_user(
        create_user(<<>>, [email |-> <<"a", "@", "x", ".", "i", "o">>,
                           username |-> <<"a", "n", "n">>, password |-> "password1"]),
        [email |-> <<"b", "@", "x", ".", "i", "o">>,
         username |-> <<"b", "o", "b">>, password |-> "password2"])

Init ==
    /\ users = RegisteredUsers
    /\ jar = EmptyJar
    /\ now = 0
    /\ contacts = <<>>
    /\ contact_seq = 0
    /\ tasks = <<>>
    /\ task_contacts = {}
    /\ history = <<>>
    /\ ai_requests = <<>>
    /\ inflight = NoRequests
    /\ hits = NoHits
    /\ resp = Response("init", 0, "", 0, NoToken, NoReq)

Next ==
    \/ \E w \in OneWorker, credentials \in DataCredentials, body \in ContactBodies :
          create_contact_route(w, credentials, body)
    \/ \E w \in OneWorker : create_contact_commit(w)
    \/ \E w \in OneWorker : create_contact_refresh(w)
    \/ \E w \in OneWorker, credentials \in DataCredentials, contact_id \in 1..MaxContacts,
          body \in ContactUpdateBodies : update_contact_route(w, credentials, contact_id, body)
    \/ \E w \in OneWorker : update_contact_read(w)
    \/ \E w \in OneWorker : update_contact_commit(w)
    \/ \E w \in OneWorker : update_contact_refresh(w)
    \/ \E w \in OneWorker, credentials \in DataCredentials, contact_id \in 1..MaxContacts :
          delete_contact_route(w, credentials, contact_id)
    \/ \E w \in OneWorker : delete_contact_read(w)
    \/ \E w \in OneWorker : delete_contact_commit(w)
    \/ \E w \in OneWorker, credentials \in DataCredentials, contact_id \in 1..MaxContacts :
          hard_delete_contact_route(w, credentials, contact_id)
    \/ \E w \in OneWorker : hard_delete_contact_read(w)
    \/ \E w \in OneWorker : hard_delete_contact_load(w)
    \/ \E w \in OneWorker : hard_delete_contact_commit(w)
    \/ \E w \in OneWorker, credentials \in DataCredentials, scheduled_datetime \in FutureDates,
          v \in IdLists : create_task_route(w, credentials, scheduled_datetime, v)
    \/ \E w \in OneWorker : create_task_read(w)
    \/ \E w \in OneWorker : create_task_commit(w)
    \/ \E w \in OneWorker : create_task_refresh(w)
    \/ \E w \in OneWorker : create_task_history(w)
    \/ \E w \in OneWorker, credentials \in DataCredentials, task_id \in 1..MaxTasks,
          raw \in TaskUpdateBodies : update_task_route(w, credentials, task_id, raw)
    \/ \E w \in OneWorker : update_task_read(w)
    \/ \E w \in OneWorker : update_task_commit(w)
    \/ \E w \in OneWorker : update_task_refresh(w)
    \/ \E w \in OneWorker, credentials \in DataCredentials, task_id \in 1..MaxTasks,
          v \in IdLists : add_contacts_route(w, credentials, task_id, v)
    \/ \E w \in OneWorker : add_contacts_task(w)
    \/ \E w \in OneWorker : add_contacts_read(w)
    \/ \E w \in OneWorker : add_contacts_load(w)
    \/ \E w \in OneWorker : add_contacts_commit(w)
    \/ \E w \in OneWorker : add_contacts_refresh(w)
    \/ \E w \in OneWorker : add_contacts_history(w)
    \/ \E w \in OneWorker : add_contacts_reload(w)
    \/ \E w \in OneWorker : add_contacts_response(w)
    \/ \E w \in OneWorker, credentials \in DataCredentials, task_id \in 1..MaxTasks,
          v \in IdLists : remove_contacts_route(w, credentials, task_id, v)
    \/ \E w \in OneWorker : remove_contacts_task(w)
    \/ \E w \in OneWorker : remove_contacts_check(w)
    \/ \E w \in OneWorker : remove_contacts_commit(w)
    \/ \E w \in OneWorker : remove_contacts_refresh(w)
    \/ \E w \in OneWorker : remove_contacts_history(w)
    \/ \E w \in OneWorker : remove_contacts_reload(w)
    \/ \E w \in OneWorker : remove_contacts_response(w)
    \/ \E w \in OneWorker, credentials \in DataCredentials, task_id \in 1..MaxTasks :
          delete_task_route(w, credentials, task_id)
    \/ \E w \in OneWorker : delete_task_read(w)
    \/ \E w \in OneWorker : delete_task_commit(w)

Spec == Init /\ [][Next]_vars

----------------------------------------------------------------------------
(* Properties of the task and contact service *)

\* the contacts the stored association rows link to the task
LinkedTo(task_id) == {c \in DOMAIN contacts : <<task_id, c>> \in task_contacts}

\* the contact id does not name an existing, active contact of the user
BadContact(user_id, c) ==
    \/ c \notin DOMAIN contacts
    \/ ~contacts[c].is_active
    \/ contacts[c].user_id # user_id

\* C1: after any sequence of API operations (task creation, update, adding
\* and removing contacts, soft deletion; contact update, soft deletion and
\* permanent deletion) every stored task is linked to at least one contact.
C1_EveryTaskHasAContact ==
    \A t \in DOMAIN tasks : LinkedTo(t) # {}

\* C8: a contact removal on a task the caller owns loads the contacts the
\* task is linked to when the request reads it; when its id list holds every
\* one of them the request is rejected with 400, and neither its read nor
\* its check changes the links, the rows or the history.
C8_RemovingAllIsRejected ==
    [][ \A w \in Workers :
          /\ StepOf(w, "remove_contacts", "authenticated")
                => ( /\ UNCHANGED dataVars
                     /\ inflight'[w] # Idle
                           => tasks[inflight[w].req.id].user_id = inflight[w].user )
          /\ StepOf(w, "remove_contacts", "found")
                => ( /\ UNCHANGED dataVars
                     /\ inflight'[w] # Idle
                           => inflight'[w].loaded = LinkedTo(inflight[w].req.id)
                     /\ LinkedTo(inflight[w].req.id) \subseteq inflight[w].req.contact_ids
                           => ( /\ inflight'[w] = Idle
                                /\ resp'.op = "remove_contacts"
                                /\ resp'.status = 400 ) ) ]_vars

\* the removal of every contact of an owned, linked task was refused
C8_Witness ==
    /\ resp.op = "remove_contacts"
    /\ resp.status = 400
    /\ resp.detail = "min_contacts"
    /\ history # <<>>
    /\ \E t \in DOMAIN tasks : tasks[t].user_id = resp.user /\ LinkedTo(t) # {}

\* C9: every contact linked to a task belongs to the user who owns the task.
C9_LinksStayWithinOneUser ==
    \A l \in task_contacts :
        /\ l[1] \in DOMAIN tasks
        /\ l[2] \in DOMAIN contacts
        /\ contacts[l[2]].user_id = tasks[l[1]].user_id

\* a task has links, another user's contact exists, and the attempt to link
\* a contact was refused
C9_Witness ==
    /\ resp.op \in {"create_task", "add_contacts"}
    /\ resp.status = 400
    /\ resp.detail = "contacts"
    /\ \E l \in task_contacts :
          \E c \in DOMAIN contacts :
              contacts[c].is_active /\ contacts[c].user_id # tasks[l[1]].user_id

\* C10: task creation is rejected with 400 and stores nothing whenever any
\* supplied contact id does not name an existing, active contact of the
\* caller when the request looks the contacts up; a request gets past the
\* look-up only with at least one contact id, all of them existing, active
\* and owned by the caller, and the task it then stores belongs to the
\* caller and is linked to exactly those contacts.
C10_CreateTaskContacts ==
    [][ /\ \A w \in Workers :
             StepOf(w, "create_task", "idle") =>
                /\ UNCHANGED dataVars
                /\ inflight'[w].user = SubjectOf(inflight'[w].cred)
        /\ \A w \in Workers :
             StepOf(w, "create_task", "authenticated") =>
                LET v == inflight[w].raw.contact_ids
                    bad == \E i \in 1..Len(v) : BadContact(inflight[w].user, v[i])
                IN
                /\ UNCHANGED dataVars
                /\ bad => ( /\ resp'.op = "create_task"
                            /\ resp'.status = 400
                            /\ inflight'[w] = Idle )
                /\ inflight'[w] # Idle =>
                      ( /\ Len(v) >= 1
                        /\ ~bad
                        /\ inflight'[w].loaded = Range(v)
                        /\ inflight'[w].user = inflight[w].user )
        /\ DOMAIN tasks' # DOMAIN tasks =>
              \E w \in Workers :
                 /\ StepOf(w, "create_task", "read")
                 /\ \E t \in DOMAIN tasks' \ DOMAIN tasks :
                       /\ tasks'[t].user_id = inflight[w].user
                       /\ {l[2] : l \in {k \in task_contacts' : k[1] = t}} = inflight[w].loaded
                       /\ inflight[w].loaded # {}
      ]_vars

\* every contact id exists, so the creation was refused for a contact that
\* is soft-deleted or belongs to another user
C10_Witness ==
    /\ resp.op = "create_task"
    /\ resp.status = 400
    /\ resp.detail = "contacts"
    /\ tasks = <<>>
    /\ DOMAIN contacts = 1..MaxContacts

----------------------------------------------------------------------------
(* Task creation while the server clock advances.  Each of the two          *)
(* registered users has already stored one contact.                         *)

EmptyDb == [contacts |-> <<>>, tasks |-> <<>>, task_contacts |-> {}]

SeededDb ==
    LET contact == CHOOSE body \in ContactBodies : TRUE IN
    create_contact(create_contact(EmptyDb, 0, ContactCreate(contact), 1),
                   1, ContactCreate(contact), 2)

InitSchedule ==
    /\ users = RegisteredUsers
    /\ jar = EmptyJar
    /\ now = 0
    /\ contacts = SeededDb.contacts
    /\ contact_seq = 2
    /\ tasks = <<>>
    /\ task_contacts = {}
    /\ history = <<>>
    /\ ai_requests = <<>>
    /\ inflight = NoRequests
    /\ hits = NoHits
    /\ resp = Response("init", 0, "", 0, NoToken, NoReq)

NextSchedule ==
    \/ \E w \in OneWorker, credentials \in DataCredentials,
          scheduled_datetime \in ScheduleInputs, v \in IdLists :
          create_task_route(w, credentials, scheduled_datetime, v)
    \/ \E w \in OneWorker : create_task_read(w)
    \/ \E w \in OneWorker : create_task_commit(w)
    \/ \E w \in OneWorker : create_task_refresh(w)
    \/ \E w \in OneWorker : create_task_history(w)
    \/ \E w \in OneWorker, credentials \in DataCredentials, task_id \in 1..MaxTasks :
          delete_task_route(w, credentials, task_id)
    \/ \E w \in OneWorker : delete_task_read(w)
    \/ \E w \in OneWorker : delete_task_commit(w)
    \/ Tick

SpecSchedule == InitSchedule /\ [][NextSchedule]_vars

\* the first half of C11: an authenticated create-task request whose
\* scheduled_datetime is not strictly later than the server clock when the
\* body is validated is answered 422 or 500 and goes no further, and the
\* validation stores nothing
C11_RejectedWhenValidated ==
    \A credentials \in DataCredentials, scheduled_datetime \in ScheduleInputs,
       v \in IdLists :
       ( /\ resp'.op \in {"create_task", "step"}
         /\ \E w \in Workers : create_task_route(w, credentials, scheduled_datetime, v) ) =>
          /\ UNCHANGED dataVars
          /\ scheduled_datetime.t <= now =>
                (resp'.status \in {401, 403, 400, 422, 500} /\ inflight' = inflight)

\* C11: a create-task request whose scheduled_datetime is not strictly later
\* than the server clock is rejected and stores nothing, and every task row
\* has a scheduled_datetime later than the server clock at the step that
\* stores it.
C11_RowsHaveFutureDates ==
    [][ /\ C11_RejectedWhenValidated
        /\ \A t \in DOMAIN tasks' \ DOMAIN tasks : tasks'[t].scheduled_datetime.t > now
      ]_vars

----------------------------------------------------------------------------
(* The life of a task: creation, reads, listings, status changes and soft   *)
(* deletion, in four compositions.  Each of the two registered users has    *)
(* stored one contact.                                                      *)

\* a status of the enumeration and a word that is none
StatusInputs == {"finalizado", "archivada"}

ActiveFilters == {"None", "true", "false"}

InitTasks ==
    /\ users = RegisteredUsers
    /\ jar = EmptyJar
    /\ now = 0
    /\ contacts = SeededDb.contacts
    /\ contact_seq = 2
    /\ tasks = <<>>
    /\ task_contacts = {}
    /\ history = <<>>
    /\ ai_requests = <<>>
    /\ inflight = NoRequests
    /\ hits = NoHits
    /\ resp = Response("init", 0, "", 0, NoToken, NoReq)

\* creation, status changes, the sender, updates, contact additions and
\* removals, soft deletion and the reads of a task, and the permanent
\* deletion of contacts
NextTasks ==
    \/ \E w \in OneWorker, credentials \in DataCredentials, scheduled_datetime \in FutureDates,
          v \in IdLists : create_task_route(w, credentials, scheduled_datetime, v)
    \/ \E w \in OneWorker : create_task_read(w)
    \/ \E w \in OneWorker : create_task_commit(w)
    \/ \E w \in OneWorker : create_task_refresh(w)
    \/ \E w \in OneWorker : create_task_history(w)
    \/ \E w \in OneWorker, credentials \in DataCredentials, task_id \in 1..MaxTasks,
          status \in StatusInputs : update_task_status_route(w, credentials, task_id, status)
    \/ \E w \in OneWorker : update_task_status_read(w)
    \/ \E w \in OneWorker : update_task_status_commit(w)
    \/ \E w \in OneWorker : update_task_status_refresh(w)
    \/ \E w \in OneWorker : update_task_status_history(w)
    \/ \E w \in OneWorker, task_id \in 1..MaxTasks : task_sent_read(w, task_id)
    \/ \E w \in OneWorker : task_sent_commit(w)
    \/ \E w \in OneWorker, credentials \in DataCredentials, task_id \in 1..MaxTasks,
          raw \in TaskUpdateBodies : update_task_route(w, credentials, task_id, raw)
    \/ \E w \in OneWorker : update_task_read(w)
    \/ \E w \in OneWorker : update_task_commit(w)
    \/ \E w \in OneWorker : update_task_refresh(w)
    \/ \E w \in OneWorker, credentials \in DataCredentials, task_id \in 1..MaxTasks,
          v \in IdLists : add_contacts_route(w, credentials, task_id, v)
    \/ \E w \in OneWorker : add_contacts_task(w)
    \/ \E w \in OneWorker : add_contacts_read(w)
    \/ \E w \in OneWorker : add_contacts_load(w)
    \/ \E w \in OneWorker : add_contacts_commit(w)
    \/ \E w \in OneWorker : add_contacts_refresh(w)
    \/ \E w \in OneWorker : add_contacts_history(w)
    \/ \E w \in OneWorker : add_contacts_reload(w)
    \/ \E w \in OneWorker : add_contacts_response(w)
    \/ \E w \in OneWorker, credentials \in DataCredentials, task_id \in 1..MaxTasks,
          v \in IdLists : remove_contacts_route(w, credentials, task_id, v)
    \/ \E w \in OneWorker : remove_contacts_task(w)
    \/ \E w \in OneWorker : remove_contacts_check(w)
    \/ \E w \in OneWorker : remove_contacts_commit(w)
    \/ \E w \in OneWorker : remove_contacts_refresh(w)
    \/ \E w \in OneWorker : remove_contacts_history(w)
    \/ \E w \in OneWorker : remove_contacts_reload(w)
    \/ \E w \in OneWorker : remove_contacts_response(w)
    \/ \E w \in OneWorker, credentials \in DataCredentials, task_id \in 1..MaxTasks :
          delete_task_route(w, credentials, task_id)
    \/ \E w \in OneWorker : delete_task_read(w)
    \/ \E w \in OneWorker : delete_task_commit(w)
    \/ \E w \in OneWorker, credentials \in DataCredentials, task_id \in 1..MaxTasks :
          get_task_route(w, credentials, task_id)
    \/ \E w \in OneWorker : get_task_read(w)
    \/ \E w \in OneWorker : get_task_response(w)
    \/ \E w \in OneWorker, credentials \in DataCredentials, task_id \in 1..MaxTasks :
          get_task_history_route(w, credentials, task_id)
    \/ \E w \in OneWorker : get_task_history_task(w)
    \/ \E w \in OneWorker : get_task_history_read(w)
    \/ \E w \in OneWorker, credentials \in DataCredentials, contact_id \in 1..MaxContacts :
          hard_delete_contact_route(w, credentials, contact_id)
    \/ \E w \in OneWorker : hard_delete_contact_read(w)
    \/ \E w \in OneWorker : hard_delete_contact_load(w)
    \/ \E w \in OneWorker : hard_delete_contact_commit(w)

SpecTasks == InitTasks /\ [][NextTasks]_vars

\* creation and soft deletion of tasks, soft and permanent deletion of
\* contacts, and the listings
NextListings ==
    \/ \E w \in OneWorker, credentials \in DataCredentials, scheduled_datetime \in FutureDates,
          v \in IdLists : create_task_route(w, credentials, scheduled_datetime, v)
    \/ \E w \in OneWorker : create_task_read(w)
    \/ \E w \in OneWorker : create_task_commit(w)
    \/ \E w \in OneWorker : create_task_refresh(w)
    \/ \E w \in OneWorker : create_task_history(w)
    \/ \E w \in OneWorker, credentials \in DataCredentials, task_id \in 1..MaxTasks :
          delete_task_route(w, credentials, task_id)
    \/ \E w \in OneWorker : delete_task_read(w)
    \/ \E w \in OneWorker : delete_task_commit(w)
    \/ \E w \in OneWorker, credentials \in DataCredentials, contact_id \in 1..MaxContacts :
          delete_contact_route(w, credentials, contact_id)
    \/ \E w \in OneWorker : delete_contact_read(w)
    \/ \E w \in OneWorker : delete_contact_commit(w)
    \/ \E w \in OneWorker, credentials \in DataCredentials, contact_id \in 1..MaxContacts :
          hard_delete_contact_route(w, credentials, contact_id)
    \/ \E w \in OneWorker : hard_delete_contact_read(w)
    \/ \E w \in OneWorker : hard_delete_contact_load(w)
    \/ \E w \in OneWorker : hard_delete_contact_commit(w)
    \/ \E w \in OneWorker, credentials \in DataCredentials, contact_id \in 1..MaxContacts,
          body \in ContactUpdateBodies : update_contact_route(w, credentials, contact_id, body)
    \/ \E w \in OneWorker : update_contact_read(w)
    \/ \E w \in OneWorker : update_contact_commit(w)
    \/ \E w \in OneWorker : update_contact_refresh(w)
    \/ \E w \in OneWorker, credentials \in DataCredentials, is_active \in ActiveFilters :
          list_contacts_route(w, credentials, is_active)
    \/ \E w \in OneWorker : list_contacts_read(w)
    \/ \E w \in OneWorker, credentials \in DataCredentials : list_tasks_route(w, credentials)
    \/ \E w \in OneWorker : list_tasks_read(w)

SpecListings == InitTasks /\ [][NextListings]_vars

\* the by-id operations on tasks and contacts, issued by both users
NextOwnership ==
    \/ \E w \in OneWorker, credentials \in DataCredentials, scheduled_datetime \in FutureDates,
          v \in IdLists : create_task_route(w, credentials, scheduled_datetime, v)
    \/ \E w \in OneWorker : create_task_read(w)
    \/ \E w \in OneWorker : create_task_commit(w)
    \/ \E w \in OneWorker : create_task_refresh(w)
    \/ \E w \in OneWorker : create_task_history(w)
    \/ \E w \in OneWorker, credentials \in DataCredentials, task_id \in 1..MaxTasks,
          status \in StatusInputs : update_task_status_route(w, credentials, task_id, status)
    \/ \E w \in OneWorker : update_task_status_read(w)
    \/ \E w \in OneWorker : update_task_status_commit(w)
    \/ \E w \in OneWorker : update_task_status_refresh(w)
    \/ \E w \in OneWorker : update_task_status_history(w)
    \/ \E w \in OneWorker, credentials \in DataCredentials, task_id \in 1..MaxTasks,
          raw \in TaskUpdateBodies : update_task_route(w, credentials, task_id, raw)
    \/ \E w \in OneWorker : update_task_read(w)
    \/ \E w \in OneWorker : update_task_commit(w)
    \/ \E w \in OneWorker : update_task_refresh(w)
    \/ \E w \in OneWorker, credentials \in DataCredentials, task_id \in 1..MaxTasks,
          v \in IdLists : add_contacts_route(w, credentials, task_id, v)
    \/ \E w \in OneWorker : add_contacts_task(w)
    \/ \E w \in OneWorker : add_contacts_read(w)
    \/ \E w \in OneWorker : add_contacts_load(w)
    \/ \E w \in OneWorker : add_contacts_commit(w)
    \/ \E w \in OneWorker : add_contacts_refresh(w)
    \/ \E w \in OneWorker : add_contacts_history(w)
    \/ \E w \in OneWorker : add_contacts_reload(w)
    \/ \E w \in OneWorker : add_contacts_response(w)
    \/ \E w \in OneWorker, credentials \in DataCredentials, task_id \in 1..MaxTasks,
          v \in IdLists : remove_contacts_route(w, credentials, task_id, v)
    \/ \E w \in OneWorker : remove_contacts_task(w)
    \/ \E w \in OneWorker : remove_contacts_check(w)
    \/ \E w \in OneWorker : remove_contacts_commit(w)
    \/ \E w \in OneWorker : remove_contacts_refresh(w)
    \/ \E w \in OneWorker : remove_contacts_history(w)
    \/ \E w \in OneWorker : remove_contacts_reload(w)
    \/ \E w \in OneWorker : remove_contacts_response(w)
    \/ \E w \in OneWorker, credentials \in DataCredentials, task_id \in 1..MaxTasks :
          delete_task_route(w, credentials, task_id)
    \/ \E w \in OneWorker : delete_task_read(w)
    \/ \E w \in OneWorker : delete_task_commit(w)
    \/ \E w \in OneWorker, credentials \in DataCredentials, task_id \in 1..MaxTasks :
          get_task_route(w, credentials, task_id)
    \/ \E w \in OneWorker : get_task_read(w)
    \/ \E w \in OneWorker : get_task_response(w)
    \/ \E w \in OneWorker, credentials \in DataCredentials, task_id \in 1..MaxTasks :
          get_task_history_route(w, credentials, task_id)
    \/ \E w \in OneWorker : get_task_history_task(w)
    \/ \E w \in OneWorker : get_task_history_read(w)
    \/ \E w \in OneWorker, credentials \in DataCredentials, contact_id \in 1..MaxContacts :
          get_contact_route(w, credentials, contact_id)
    \/ \E w \in OneWorker : get_contact_read(w)
    \/ \E w \in OneWorker, credentials \in DataCredentials, contact_id \in 1..MaxContacts,
          body \in ContactUpdateBodies : update_contact_route(w, credentials, contact_id, body)
    \/ \E w \in OneWorker : update_contact_read(w)
    \/ \E w \in OneWorker : update_contact_commit(w)
    \/ \E w \in OneWorker : update_contact_refresh(w)
    \/ \E w \in OneWorker, credentials \in DataCredentials, contact_id \in 1..MaxContacts :
          delete_contact_route(w, credentials, contact_id)
    \/ \E w \in OneWorker : delete_contact_read(w)
    \/ \E w \in OneWorker : delete_contact_commit(w)

SpecOwnership == InitTasks /\ [][NextOwnership]_vars

\* status changes to every status, on active, soft-deleted and sent tasks
NextStatus ==
    \/ \E w \in OneWorker, credentials \in DataCredentials, scheduled_datetime \in FutureDates,
          v \in IdLists : create_task_route(w, credentials, scheduled_datetime, v)
    \/ \E w \in OneWorker : create_task_read(w)
    \/ \E w \in OneWorker : create_task_commit(w)
    \/ \E w \in OneWorker : create_task_refresh(w)
    \/ \E w \in OneWorker : create_task_history(w)
    \/ \E w \in OneWorker, credentials \in DataCredentials, task_id \in 1..MaxTasks,
          status \in TaskStatusEnum : update_task_status_route(w, credentials, task_id, status)
    \/ \E w \in OneWorker : update_task_status_read(w)
    \/ \E w \in OneWorker : update_task_status_commit(w)
    \/ \E w \in OneWorker : update_task_status_refresh(w)
    \/ \E w \in OneWorker : update_task_status_history(w)
    \/ \E w \in OneWorker, task_id \in 1..MaxTasks : task_sent_read(w, task_id)
    \/ \E w \in OneWorker : task_sent_commit(w)
    \/ \E w \in OneWorker, credentials \in DataCredentials, task_id \in 1..MaxTasks :
          delete_task_route(w, credentials, task_id)
    \/ \E w \in OneWorker : delete_task_read(w)
    \/ \E w \in OneWorker : delete_task_commit(w)

SpecStatus == InitTasks /\ [][NextStatus]_vars

\* PUT /tasks/{id} over the fields of TaskUpdate, with the sender at work
NextUpdate ==
    \/ \E w \in OneWorker, credentials \in DataCredentials, scheduled_datetime \in FutureDates,
          v \in IdLists : create_task_route(w, credentials, scheduled_datetime, v)
    \/ \E w \in OneWorker : create_task_read(w)
    \/ \E w \in OneWorker : create_task_commit(w)
    \/ \E w \in OneWorker : create_task_refresh(w)
    \/ \E w \in OneWorker : create_task_history(w)
    \/ \E w \in OneWorker, credentials \in DataCredentials, task_id \in 1..MaxTasks,
          raw \in TaskFieldBodies : update_task_route(w, credentials, task_id, raw)
    \/ \E w \in OneWorker : update_task_read(w)
    \/ \E w \in OneWorker : update_task_commit(w)
    \/ \E w \in OneWorker : update_task_refresh(w)
    \/ \E w \in OneWorker, task_id \in 1..MaxTasks : task_sent_read(w, task_id)
    \/ \E w \in OneWorker : task_sent_commit(w)

SpecUpdate == InitTasks /\ [][NextUpdate]_vars

\* the contact routes served by two workers at once, and the creation of
\* the task that links the contacts
NextContactRace ==
    \/ \E w \in Workers, credentials \in DataCredentials, contact_id \in 1..MaxContacts,
          body \in ContactUpdateBodies : update_contact_route(w, credentials, contact_id, body)
    \/ \E w \in Workers : update_contact_read(w)
    \/ \E w \in Workers : update_contact_commit(w)
    \/ \E w \in Workers : update_contact_refresh(w)
    \/ \E w \in Workers, credentials \in DataCredentials, contact_id \in 1..MaxContacts :
          delete_contact_route(w, credentials, contact_id)
    \/ \E w \in Workers : delete_contact_read(w)
    \/ \E w \in Workers : delete_contact_commit(w)
    \/ \E w \in Workers, credentials \in DataCredentials, contact_id \in 1..MaxContacts :
          hard_delete_contact_route(w, credentials, contact_id)
    \/ \E w \in Workers : hard_delete_contact_read(w)
    \/ \E w \in Workers : hard_delete_contact_load(w)
    \/ \E w \in Workers : hard_delete_contact_commit(w)
    \/ \E w \in OneWorker, credentials \in DataCredentials, scheduled_datetime \in FutureDates,
          v \in IdLists : create_task_route(w, credentials, scheduled_datetime, v)
    \/ \E w \in OneWorker : create_task_read(w)
    \/ \E w \in OneWorker : create_task_commit(w)
    \/ \E w \in OneWorker : create_task_refresh(w)
    \/ \E w \in OneWorker : create_task_history(w)

SpecContactRace == InitTasks /\ [][NextContactRace]_vars

\* C12: the default listing of contacts (GET /contacts without is_active)
\* and the default listing of tasks (GET /tasks without filter) never return
\* an entity whose is_active is false.
C12_DefaultListingsHideSoftDeleted ==
    ( /\ resp.op \in {"list_contacts", "list_tasks"}
      /\ resp.status = 200
      /\ resp.op = "list_contacts" => resp.req.is_active = "None" )
        => \A entity \in resp.body : entity.is_active

ByIdTaskOps ==
    {"get_task", "get_task_history", "update_task", "update_task_status", "add_contacts",
     "remove_contacts", "delete_task"}

ByIdContactOps == {"get_contact", "update_contact", "delete_contact"}

\* worker w serves a by-id request whose body has passed validation and
\* takes the step that looks the entity up
LooksUp(w, ops) ==
    /\ inflight[w].pc = "authenticated"
    /\ inflight[w].op \in ops
    /\ inflight'[w] # inflight[w]

\* C13: every by-id operation a user issues on a task or contact owned by
\* another user answers 404 and leaves the stored data unchanged, while the
\* owner retrieves the entity by id, soft-deleted or not.
C13_ForeignEntityIsNotFound ==
    [][ \A w \in Workers :
          /\ (LooksUp(w, ByIdTaskOps) /\ inflight[w].req.id \in DOMAIN tasks) =>
                IF tasks[inflight[w].req.id].user_id # inflight[w].user
                THEN /\ resp'.op = inflight[w].op
                     /\ resp'.status = 404
                     /\ UNCHANGED dataVars
                ELSE inflight[w].op = "get_task" => inflight'[w].pc = "loaded"
          /\ StepOf(w, "get_task", "loaded") => resp'.status = 200
          /\ (LooksUp(w, ByIdContactOps) /\ inflight[w].req.id \in DOMAIN contacts) =>
                IF contacts[inflight[w].req.id].user_id # inflight[w].user
                THEN /\ resp'.op = inflight[w].op
                     /\ resp'.status = 404
                     /\ UNCHANGED dataVars
                ELSE inflight[w].op = "get_contact" => resp'.status = 200
      ]_vars

----------------------------------------------------------------------------
(* Contacts and their channel values: the contact create and update        *)
(* routes over channel types and values of every shape the validators tell *)
(* apart.                                                                  *)

\* "+" followed by the n digits 1 2 3 ... (0 after 9)
Phone(n) == <<"+">> \o [i \in 1..n |-> Digit(i % 10)]

Plain11Digits == [i \in 1..11 |-> Digit(i % 10)]

SeparatedPhone == <<"+", "5", "4", " ", "9", "1", "1", "-", "2", "3", "4", "5", "6">>

PaddedPhone == <<" ">> \o Phone(10)

\* Phone(10) after blanks, n characters in all
PhoneOfLength(n) == [i \in 1..(n - 11) |-> " "] \o Phone(10)

PhoneValues ==
    {Phone(9), Phone(10), Phone(15), Phone(16), Plain11Digits, SeparatedPhone,
     PaddedPhone, PhoneOfLength(255), PhoneOfLength(256),
     <<"+", "5", "4", "9", "1", "1", "a", "3", "4", "5", "6">>}

\* the last one has the three characters the schema asks for, of which the
\* validator strips one
EmailValues ==
    {<<"a", "@", "x", ".", "i", "o">>,
     <<"A", "@", "x", ".", "i", "o">>,
     <<"a", "@", "x", "i", "o">>,
     <<"a", "x", ".", "i", "o">>,
     <<" ", "@", ".">>}

TelegramValues ==
    {<<"@", "a", "n", "n", "_", "0", "1">>,
     <<"@", "a", "n", "n">>,
     <<"a", "n", "n", "_", "0", "1">>}

\* every value with the type it is written for, and two bodies whose type
\* and value do not go together
ContactCreateBodies ==
    [channel_type : {"whatsapp"}, channel_value : PhoneValues]
    \cup [channel_type : {"email"}, channel_value : EmailValues \cup {Phone(10)}]
    \cup [channel_type : {"telegram"}, channel_value : TelegramValues]
    \cup [channel_type : {"sms"}, channel_value : {Phone(10)}]

\* a body with a new value only, with a new type only, and with both
ChannelUpdateBodies ==
    [set : {{"channel_value"}}, channel_type : {"email"},
     channel_value : {Plain11Digits, <<"a", "@", "x", ".", "i", "o">>}, is_active : {TRUE}]
    \cup [set : {{"channel_type"}}, channel_type : ChannelTypeEnum,
          channel_value : {Plain11Digits}, is_active : {TRUE}]
    \cup [set : {{"channel_type", "channel_value"}}, channel_type : ChannelTypeEnum,
          channel_value : {Phone(10), Plain11Digits}, is_active : {TRUE}]

InitContacts ==
    /\ users = RegisteredUsers
    /\ jar = EmptyJar
    /\ now = 0
    /\ contacts = <<>>
    /\ contact_seq = 0
    /\ tasks = <<>>
    /\ task_contacts = {}
    /\ history = <<>>
    /\ ai_requests = <<>>
    /\ inflight = NoRequests
    /\ hits = NoHits
    /\ resp = Response("init", 0, "", 0, NoToken, NoReq)

NextContacts ==
    \/ \E w \in OneWorker, credentials \in DataCredentials, body \in ContactCreateBodies :
          create_contact_route(w, credentials, body)
    \/ \E w \in OneWorker : create_contact_commit(w)
    \/ \E w \in OneWorker : create_contact_refresh(w)
    \/ \E w \in OneWorker, credentials \in DataCredentials, contact_id \in 1..MaxContacts,
          body \in ChannelUpdateBodies : update_contact_route(w, credentials, contact_id, body)
    \/ \E w \in OneWorker : update_contact_read(w)
    \/ \E w \in OneWorker : update_contact_commit(w)
    \/ \E w \in OneWorker : update_contact_refresh(w)

SpecContacts == InitContacts /\ [][NextContacts]_vars

\* contact creation by one worker, while permanent deletions are served by
\* either
NextContactCreate ==
    \/ \E w \in OneWorker, credentials \in DataCredentials, body \in ContactCreateBodies :
          create_contact_route(w, credentials, body)
    \/ \E w \in OneWorker : create_contact_commit(w)
    \/ \E w \in OneWorker : create_contact_refresh(w)
    \/ \E w \in Workers, credentials \in DataCredentials, contact_id \in 1..MaxContacts :
          hard_delete_contact_route(w, credentials, contact_id)
    \/ \E w \in Workers : hard_delete_contact_read(w)
    \/ \E w \in Workers : hard_delete_contact_load(w)
    \/ \E w \in Workers : hard_delete_contact_commit(w)

SpecContactCreate == InitContacts /\ [][NextContactCreate]_vars

\* The format rule of a channel type, read generously: surrounding blanks are
\* ignored, and a phone number may group its digits with blanks and hyphens.
SatisfiesFormat(channel_type, channel_value) ==
    LET v == strip(channel_value)
        rest == slice_1(v)
        phone_digits == SelectSeq(rest, LAMBDA x : x \notin {" ", "-"})
    IN
    IF channel_type = "whatsapp"
    THEN /\ startswith(v, "+")
         /\ Len(phone_digits) \in 10..15
         /\ \A i \in DOMAIN phone_digits : phone_digits[i] \in Digits
    ELSE IF channel_type = "email"
    THEN /\ \E i, j \in DOMAIN v : i < j /\ v[i] = "@" /\ v[j] = "."
         /\ " " \notin Range(v)
    ELSE /\ startswith(v, "@")
         /\ Len(rest) >= 5
         /\ \A i \in DOMAIN rest : rest[i] \in Digits \cup Letters \cup {"_"}

\* C14: after any sequence of contact create and update operations, the
\* channel_value of every stored contact satisfies the format rule of the
\* channel_type stored with it.
C14_StoredValueFitsStoredType ==
    \A c \in DOMAIN contacts :
        SatisfiesFormat(contacts[c].channel_type, contacts[c].channel_value)


\* a whatsapp value as the rule is worded: "+" and then 10 to 15 digits,
\* nothing else
StrictPhone(v) ==
    /\ startswith(v, "+")
    /\ Len(v) - 1 \in 10..15
    /\ \A i \in 2..Len(v) : v[i] \in Digits

\* a whatsapp value as creation takes it: blanks around it are dropped, and
\* after the "+" come 10 to 15 digits that blanks and hyphens may separate
LenientPhone(v) ==
    LET w == strip(v)
        phone_digits == SelectSeq(slice_1(w), LAMBDA x : x \notin {" ", "-"})
    IN /\ startswith(w, "+")
       /\ Len(phone_digits) \in 10..15
       /\ \A i \in DOMAIN phone_digits : phone_digits[i] \in Digits

\* a whatsapp value as creation takes it, within the length the schema
\* declares for channel_value, which is measured on the value as sent
AcceptedPhone(v) == LenientPhone(v) /\ Len(v) >= 3 /\ Len(v) <= 255

\* worker w receives a POST /contacts with a whatsapp body and bearer
\* credentials of a user
WhatsAppRequest(w, credentials, body) ==
    /\ resp'.op \in {"create_contact", "step"}
    /\ inflight[w].pc = "idle"
    /\ body.channel_type = "whatsapp"
    /\ create_contact_route(w, credentials, body)

\* the request was answered 422 and stored nothing
RejectedContact ==
    /\ resp'.op = "create_contact"
    /\ resp'.status = 422
    /\ inflight' = inflight
    /\ UNCHANGED dataVars

\* worker w stores the whatsapp contact of the request it serves, as a new
\* active contact of the caller
StoresWhatsApp(w) ==
    /\ contact_seq' = contact_seq + 1
    /\ DOMAIN contacts' = DOMAIN contacts \cup {contact_seq'}
    /\ contacts'[contact_seq'] =
          [user_id |-> inflight[w].user, channel_type |-> "whatsapp",
           channel_value |-> inflight[w].req.channel_value, is_active |-> TRUE]
    /\ \A c \in DOMAIN contacts : contacts'[c] = contacts[c]
    /\ inflight'[w].pc = "committed"
    /\ inflight'[w].contact_id = contact_seq'

\* the steps of a whatsapp request that has passed validation: the row is
\* stored, and the request is then answered 201, or 500 when another
\* request has deleted the row for good since it was stored
AcceptedIsStored ==
    \A w \in Workers :
       /\ ( /\ StepOf(w, "create_contact", "authenticated")
            /\ inflight[w].req.channel_type = "whatsapp" ) => StoresWhatsApp(w)
       /\ ( /\ StepOf(w, "create_contact", "committed")
            /\ inflight[w].req.channel_type = "whatsapp" ) =>
               /\ resp'.op = "create_contact"
               /\ resp'.status =
                     IF inflight[w].contact_id \in DOMAIN contacts THEN 201 ELSE 500
               /\ UNCHANGED dataVars

\* C15 (as stated): creating a whatsapp contact succeeds exactly when the
\* channel_value is "+" followed by 10 to 15 digits; a value without a
\* leading "+" is rejected and nothing is stored.
C15_WhatsAppStrictFormat ==
    [][ /\ \A w \in OneWorker, credentials \in DataCredentials, body \in ContactCreateBodies :
              WhatsAppRequest(w, credentials, body) =>
                 /\ inflight' # inflight <=> StrictPhone(body.channel_value)
                 /\ inflight' = inflight => RejectedContact
                 /\ ~startswith(body.channel_value, "+") => RejectedContact
        /\ AcceptedIsStored ]_vars

\* C15 (amended): creating a whatsapp contact succeeds exactly when the
\* channel_value as sent has at most 255 characters and, with the blanks
\* around it dropped, is "+" followed by 10 to 15 digits that blanks and
\* hyphens may separate; the stored value is the one sent without the
\* surrounding blanks, and the answer is 201 as long as no other request
\* has deleted the new row for good before it is read back.  Any other
\* value, and so every value whose first non-blank character is not "+",
\* is rejected with 422 and nothing is stored.
C15_WhatsAppLenientFormat ==
    [][ /\ \A w \in OneWorker, credentials \in DataCredentials, body \in ContactCreateBodies :
              WhatsAppRequest(w, credentials, body) =>
                 /\ inflight' # inflight <=> AcceptedPhone(body.channel_value)
                 /\ inflight' # inflight =>
                       /\ UNCHANGED dataVars
                       /\ inflight'[w].user = SubjectOf(credentials)
                       /\ inflight'[w].req.channel_type = "whatsapp"
                       /\ inflight'[w].req.channel_value = strip(body.channel_value)
                 /\ inflight' = inflight => RejectedContact
                 /\ ~startswith(strip(body.channel_value), "+") => RejectedContact
        /\ AcceptedIsStored ]_vars

\* a whatsapp number written with a blank and a hyphen was just stored, and
\* it is the second contact: the first one was a number of 15 digits
C15_Witness ==
    /\ resp.op = "create_contact"
    /\ resp.status = 201
    /\ contact_seq = 2
    /\ contacts[1].channel_type = "whatsapp"
    /\ contacts[1].channel_value = Phone(15)
    /\ contacts[2].channel_type = "whatsapp"
    /\ contacts[2].channel_value = SeparatedPhone


----------------------------------------------------------------------------
(* Task history *)

LinksOf(links, task_id) == {l \in links : l[1] = task_id}

\* the step created task t, changed its status or changed its contacts
TaskWritten(t) ==
    \/ t \notin DOMAIN tasks /\ t \in DOMAIN tasks'
    \/ t \in DOMAIN tasks /\ tasks'[t].status # tasks[t].status
    \/ LinksOf(task_contacts', t) # LinksOf(task_contacts, t)

\* the step added one row to the history, and the row is about task t
OneNewRowFor(t) ==
    /\ Len(history') = Len(history) + 1
    /\ SubSeq(history', 1, Len(history)) = history
    /\ history'[Len(history')].task_id = t

\* the routes that write to the tasks and their contact links
TaskWriters ==
    {"create_task", "add_contacts", "remove_contacts", "update_task_status", "update_task",
     "delete_task"}

\* the task a request in flight is about
TaskOf(request) == IF request.op = "create_task" THEN request.task_id ELSE request.req.id

\* C16: every task creation, contact addition, contact removal and status
\* change that takes effect, through POST /tasks, POST and DELETE
\* /tasks/{id}/contacts, PUT /tasks/{id}/status, PUT /tasks/{id} or DELETE
\* /tasks/{id}, comes with exactly one new TaskHistory row for that task: the
\* request that commits the change goes on to insert a history row, and the
\* step that inserts it adds exactly one row, which is about that task.
C16_EveryChangeIsRecorded ==
    [][\A w \in Workers :
          /\ \A t \in 1..MaxTasks :
                ( /\ inflight[w].pc # "idle"
                  /\ inflight'[w] # inflight[w]
                  /\ inflight[w].op \in TaskWriters
                  /\ TaskWritten(t) )
                => ( /\ inflight[w].op \in HistoryOps
                     /\ inflight'[w] # Idle
                     /\ TaskOf(inflight'[w]) = t )
          /\ ( /\ inflight[w].pc = "refreshed"
               /\ inflight'[w] # inflight[w]
               /\ inflight[w].op \in HistoryOps )
                => OneNewRowFor(TaskOf(inflight[w]))]_vars


\* C17: the TaskHistory rows only grow: every step keeps every existing row
\* as it is and in its place; no operation modifies or removes one.
C17_HistoryOnlyGrows ==
    [][ /\ Len(history') >= Len(history)
        /\ SubSeq(history', 1, Len(history)) = history ]_vars

\* a task with three rows of history has just been deleted
C17_Witness ==
    /\ resp.op = "delete_task"
    /\ resp.status = 204
    /\ Len(history) = MaxHistory


\* the actions of the history rows of task t, oldest first
ActionsOf(h, t) ==
    LET rows == SelectSeq(h, LAMBDA row : row.task_id = t) IN
    [i \in DOMAIN rows |-> rows[i].action]

\* The end-to-end example: a user stores a contact, creates a task with it,
\* reads the task, changes its status and reads its history.  The contacts
\* are the one of the example and one whose value has the three characters
\* the schema asks for, a blank among them.
ExampleContactBodies ==
    ContactBodies \cup {[channel_type |-> "email", channel_value |-> <<" ", "@", ".">>]}

NextExample ==
    \/ \E w \in OneWorker, credentials \in DataCredentials, body \in ExampleContactBodies :
          create_contact_route(w, credentials, body)
    \/ \E w \in OneWorker : create_contact_commit(w)
    \/ \E w \in OneWorker : create_contact_refresh(w)
    \/ \E w \in OneWorker, credentials \in DataCredentials, scheduled_datetime \in FutureDates,
          v \in IdLists : create_task_route(w, credentials, scheduled_datetime, v)
    \/ \E w \in OneWorker : create_task_read(w)
    \/ \E w \in OneWorker : create_task_commit(w)
    \/ \E w \in OneWorker : create_task_refresh(w)
    \/ \E w \in OneWorker : create_task_history(w)
    \/ \E w \in OneWorker, credentials \in DataCredentials, task_id \in 1..MaxTasks :
          get_task_route(w, credentials, task_id)
    \/ \E w \in OneWorker : get_task_read(w)
    \/ \E w \in OneWorker : get_task_response(w)
    \/ \E w \in OneWorker, credentials \in DataCredentials, task_id \in 1..MaxTasks,
          status \in StatusInputs : update_task_status_route(w, credentials, task_id, status)
    \/ \E w \in OneWorker : update_task_status_read(w)
    \/ \E w \in OneWorker : update_task_status_commit(w)
    \/ \E w \in OneWorker : update_task_status_refresh(w)
    \/ \E w \in OneWorker : update_task_status_history(w)
    \/ \E w \in OneWorker, credentials \in DataCredentials, task_id \in 1..MaxTasks :
          get_task_history_route(w, credentials, task_id)
    \/ \E w \in OneWorker : get_task_history_task(w)
    \/ \E w \in OneWorker : get_task_history_read(w)

SpecExample == Init /\ [][NextExample]_vars

\* task t is as POST /tasks stored it with one contact, and nothing has
\* changed it since
AsCreated(t) ==
    /\ tasks[t].status = "pendiente"
    /\ Cardinality(LinksOf(task_contacts, t)) = 1
    /\ \A l \in LinksOf(task_contacts, t) :
          /\ l[2] \in DOMAIN contacts
          /\ contacts[l[2]].is_active
          /\ contacts[l[2]].user_id = tasks[t].user_id
    /\ ActionsOf(history, t) = <<"creada">>

\* C18: a task created with one owned active contact and a future date is
\* stored with status pendiente and a link to exactly that contact; GET on
\* the task, read by its owner before anything has changed it, answers 200
\* with status pendiente and exactly that contact; and one status change
\* through PUT /tasks/{id}/status on a task whose history is the creation
\* alone leaves exactly two history entries for it, creada and
\* estado_cambiado, which GET /tasks/{id}/history returns.
C18_CreateReadChangeHistory ==
    [][\A w \in Workers :
          /\ ( /\ StepOf(w, "create_task", "read")
               /\ DOMAIN tasks' # DOMAIN tasks
               /\ Cardinality(inflight[w].req.contact_ids) = 1 )
             => \A t \in DOMAIN tasks' \ DOMAIN tasks :
                   /\ tasks'[t].status = "pendiente"
                   /\ tasks'[t].user_id = inflight[w].user
                   /\ LinksOf(task_contacts', t) =
                         {<<t, c>> : c \in inflight[w].req.contact_ids}
          /\ ( /\ StepOf(w, "get_task", "loaded")
               /\ AsCreated(inflight[w].req.id) )
             => /\ resp'.status = 200
                /\ resp'.body.status = "pendiente"
                /\ {<<inflight[w].req.id, c.id>> : c \in resp'.body.contacts}
                      = LinksOf(task_contacts, inflight[w].req.id)
          /\ ( /\ StepOf(w, "update_task_status", "refreshed")
               /\ ActionsOf(history, inflight[w].req.id) = <<"creada">> )
             => ActionsOf(history', inflight[w].req.id) = <<"creada", "estado_cambiado">>
          /\ StepOf(w, "get_task_history", "found")
             => /\ resp'.status = 200
                /\ Len(resp'.body) = Len(ActionsOf(history, inflight[w].req.id))
                /\ {row.action : row \in Range(resp'.body)}
                      = Range(ActionsOf(history, inflight[w].req.id)) ]_vars


----------------------------------------------------------------------------
(* Task status and soft delete *)

\* C19: for every owned task, active or soft-deleted, in any status s, and
\* every status t of the five, PUT /tasks/{id}/status with t succeeds and
\* leaves the task in status t.
C19_AnyTransitionSucceeds ==
    [][\A task_id \in DOMAIN tasks :
          ( /\ resp'.op = "update_task_status"
            /\ resp'.req.id = task_id
            /\ resp'.req.status \in TaskStatusEnum
            /\ tasks[task_id].user_id = resp'.user )
          => /\ resp'.status = 200
             /\ tasks'[task_id].status = resp'.req.status]_vars

\* DELETE /tasks/{id} and PUT /tasks/{id}/status served by two workers at
\* once, on a task one worker has created
NextDeleteRace ==
    \/ \E w \in OneWorker, credentials \in DataCredentials, scheduled_datetime \in FutureDates,
          v \in IdLists : create_task_route(w, credentials, scheduled_datetime, v)
    \/ \E w \in OneWorker : create_task_read(w)
    \/ \E w \in OneWorker : create_task_commit(w)
    \/ \E w \in OneWorker : create_task_refresh(w)
    \/ \E w \in OneWorker : create_task_history(w)
    \/ \E w \in Workers, credentials \in DataCredentials, task_id \in 1..MaxTasks,
          status \in {"cancelada", "pendiente"} :
          update_task_status_route(w, credentials, task_id, status)
    \/ \E w \in Workers : update_task_status_read(w)
    \/ \E w \in Workers : update_task_status_commit(w)
    \/ \E w \in Workers : update_task_status_refresh(w)
    \/ \E w \in Workers : update_task_status_history(w)
    \/ \E w \in Workers, credentials \in DataCredentials, task_id \in 1..MaxTasks :
          delete_task_route(w, credentials, task_id)
    \/ \E w \in Workers : delete_task_read(w)
    \/ \E w \in Workers : delete_task_commit(w)

SpecDeleteRace == InitTasks /\ [][NextDeleteRace]_vars

\* C20: DELETE /tasks/{id} on an owned task answers 204 and leaves the row
\* with is_active false and status cancelada, changing nothing else: the
\* other fields of the row, the contact links, the contacts and the history
\* are as before.  No step of any operation removes a task row.
C20_DeleteTaskIsSoft ==
    [][ /\ \A w \in Workers :
              StepOf(w, "delete_task", "loaded") =>
                 LET task_id == inflight[w].req.id IN
                 /\ resp'.status = 204
                 /\ ~tasks'[task_id].is_active
                 /\ tasks'[task_id].status = "cancelada"
                 /\ tasks' = [tasks EXCEPT ![task_id].is_active = FALSE,
                                           ![task_id].status = "cancelada"]
                 /\ task_contacts' = task_contacts
                 /\ contacts' = contacts
                 /\ history' = history
        /\ DOMAIN tasks \subseteq DOMAIN tasks'
        /\ \A t \in DOMAIN tasks : tasks'[t].user_id = tasks[t].user_id ]_vars


----------------------------------------------------------------------------
(* Reactivating a soft-deleted task: the owner and the other user create,  *)
(* delete, update and read tasks, and the owner of a task sends the PUT    *)
(* /tasks/{id} that asks for is_active = true again and again.             *)

\* PUT /tasks/{id} bodies that ask for the task back, alone and with a status
ReactivateBodies ==
    [set : {{"is_active"}, {"is_active", "status"}}, status : {"pendiente"},
     contact_ids : {{}}, is_active : {TRUE}]

\* the bearer token user u holds from the start (the clock does not move here)
TokenOf(u) ==
    create_access_token([sub |-> str(u), username |-> RegisteredUsers[u].username], 0)

\* user u sends PUT /tasks/{task_id} asking for the task back
Reactivate(u, task_id) ==
    \E w \in OneWorker, raw \in ReactivateBodies :
        update_task_route(w, TokenOf(u), task_id, raw)

\* the worker takes the next step of the request it is serving
ServeReactivate ==
    \/ \E w \in OneWorker : create_task_read(w)
    \/ \E w \in OneWorker : create_task_commit(w)
    \/ \E w \in OneWorker : create_task_refresh(w)
    \/ \E w \in OneWorker : create_task_history(w)
    \/ \E w \in OneWorker : delete_task_read(w)
    \/ \E w \in OneWorker : delete_task_commit(w)
    \/ \E w \in OneWorker : update_task_read(w)
    \/ \E w \in OneWorker : update_task_commit(w)
    \/ \E w \in OneWorker : update_task_refresh(w)
    \/ \E w \in OneWorker : update_task_status_read(w)
    \/ \E w \in OneWorker : update_task_status_commit(w)
    \/ \E w \in OneWorker : update_task_status_refresh(w)
    \/ \E w \in OneWorker : update_task_status_history(w)
    \/ \E w \in OneWorker : get_task_read(w)
    \/ \E w \in OneWorker : get_task_response(w)

NextReactivate ==
    \/ \E w \in OneWorker, credentials \in DataCredentials, scheduled_datetime \in FutureDates,
          v \in IdLists : create_task_route(w, credentials, scheduled_datetime, v)
    \/ \E w \in OneWorker, credentials \in DataCredentials, task_id \in 1..MaxTasks :
          delete_task_route(w, credentials, task_id)
    \/ \E u \in 1..MaxUsers, task_id \in 1..MaxTasks : Reactivate(u, task_id)
    \/ \E w \in OneWorker, credentials \in DataCredentials, task_id \in 1..MaxTasks,
          status \in StatusInputs : update_task_status_route(w, credentials, task_id, status)
    \/ \E w \in OneWorker, credentials \in DataCredentials, task_id \in 1..MaxTasks :
          get_task_route(w, credentials, task_id)
    \/ ServeReactivate

\* The thread pool runs every request it has accepted to its response, so
\* the next step of the request in flight is taken (weak fairness: it stays
\* enabled until it is taken).  The owner's request is accepted when the
\* worker is free, which it is again and again without being so for ever,
\* and the owner keeps sending it (strong fairness).
SpecReactivate ==
    /\ InitTasks
    /\ [][NextReactivate]_vars
    /\ WF_vars(ServeReactivate)
    /\ \A u \in 1..MaxUsers, task_id \in 1..MaxTasks : SF_vars(Reactivate(u, task_id))

\* C21: a soft-deleted task can be reactivated by an update: from a state
\* where a task has is_active = false, with its owner sending PUT
\* /tasks/{id} with is_active = true and the server answering every
\* request, the task has is_active = true again.
C21_DeletedTaskComesBack ==
    \A t \in 1..MaxTasks :
        (t \in DOMAIN tasks /\ ~tasks[t].is_active)
            ~> (t \in DOMAIN tasks /\ tasks[t].is_active)

\* What the routes do instead: no step of POST /tasks, DELETE /tasks/{id},
\* PUT /tasks/{id}, PUT /tasks/{id}/status or GET /tasks/{id} gives a task
\* that has is_active = false the value true.
DeletedTaskStaysDeleted ==
    [][\A t \in DOMAIN tasks : ~tasks[t].is_active => ~tasks'[t].is_active]_vars


----------------------------------------------------------------------------
(* Replacing the contacts of a task through PUT /tasks/{id}: user 1 owns   *)
(* both contacts, so a task can be linked to either or to both.            *)

OwnContactsDb ==
    LET contact == CHOOSE body \in ContactBodies : TRUE IN
    create_contact(create_contact(EmptyDb, 0, ContactCreate(contact), 1),
                   1, ContactCreate(contact), 1)

\* PUT /tasks/{id} bodies with a contact_ids list, alone and with a status
ReplaceBodies ==
    [set : {{"contact_ids"}, {"contact_ids", "status"}}, status : {"en_progreso"},
     contact_ids : (SUBSET (1..MaxContacts)) \ {{}}]

InitReplace ==
    /\ users = RegisteredUsers
    /\ jar = EmptyJar
    /\ now = 0
    /\ contacts = OwnContactsDb.contacts
    /\ contact_seq = 2
    /\ tasks = <<>>
    /\ task_contacts = {}
    /\ history = <<>>
    /\ ai_requests = <<>>
    /\ inflight = NoRequests
    /\ hits = NoHits
    /\ resp = Response("init", 0, "", 0, NoToken, NoReq)

NextReplace ==
    \/ \E w \in OneWorker, credentials \in DataCredentials, scheduled_datetime \in FutureDates,
          v \in IdLists : create_task_route(w, credentials, scheduled_datetime, v)
    \/ \E w \in OneWorker : create_task_read(w)
    \/ \E w \in OneWorker : create_task_commit(w)
    \/ \E w \in OneWorker : create_task_refresh(w)
    \/ \E w \in OneWorker : create_task_history(w)
    \/ \E w \in OneWorker, credentials \in DataCredentials, task_id \in 1..MaxTasks,
          raw \in ReplaceBodies : update_task_route(w, credentials, task_id, raw)
    \/ \E w \in OneWorker : update_task_read(w)
    \/ \E w \in OneWorker : update_task_commit(w)
    \/ \E w \in OneWorker : update_task_refresh(w)
    \/ \E w \in OneWorker, credentials \in DataCredentials, task_id \in 1..MaxTasks :
          delete_task_route(w, credentials, task_id)
    \/ \E w \in OneWorker : delete_task_read(w)
    \/ \E w \in OneWorker : delete_task_commit(w)
    \/ \E w \in OneWorker, credentials \in DataCredentials, task_id \in 1..MaxTasks :
          get_task_route(w, credentials, task_id)
    \/ \E w \in OneWorker : get_task_read(w)
    \/ \E w \in OneWorker : get_task_response(w)

SpecReplace == InitReplace /\ [][NextReplace]_vars

\* C22: a successful PUT /tasks/{id} with a contact_ids list leaves the task
\* linked to exactly the contacts named in the list.
C22_ContactIdsReplaceLinks ==
    [][ ( /\ resp'.op = "update_task"
          /\ resp'.status = 200
          /\ "contact_ids" \in resp'.req.raw.set )
          => {l[2] : l \in LinksOf(task_contacts', resp'.req.id)}
                = resp'.req.raw.contact_ids ]_vars


----------------------------------------------------------------------------
(* Tags: PUT /tasks/{id} with tag lists of every shape the validator and   *)
(* the conversions tell apart, and the responses that expose tags_list.    *)

PaddedTag == <<" ", "a", " ">>

CommaTag == <<"a", ",", "b">>

LongTag(n) == [i \in 1..n |-> "a"]

TagLists ==
    {<<>>,
     <<(<<"a">>)>>,
     <<PaddedTag>>,
     <<(<<"a">>), (<<"b">>)>>,
     <<CommaTag>>,
     <<(<<" ">>)>>,
     <<LongTag(30)>>,
     <<LongTag(31)>>,
     [i \in 1..10 |-> <<"a">>],
     [i \in 1..11 |-> <<"a">>],
     [i \in 1..10 |-> CommaTag]}

TagBodies ==
    [set : {{"tags"}}, status : {"pendiente"}, contact_ids : {{}}, tags : TagLists]

NextTags ==
    \/ \E w \in OneWorker, credentials \in DataCredentials, scheduled_datetime \in FutureDates,
          v \in IdLists : create_task_route(w, credentials, scheduled_datetime, v)
    \/ \E w \in OneWorker : create_task_read(w)
    \/ \E w \in OneWorker : create_task_commit(w)
    \/ \E w \in OneWorker : create_task_refresh(w)
    \/ \E w \in OneWorker : create_task_history(w)
    \/ \E w \in OneWorker, credentials \in DataCredentials, task_id \in 1..MaxTasks,
          raw \in TagBodies : update_task_route(w, credentials, task_id, raw)
    \/ \E w \in OneWorker : update_task_read(w)
    \/ \E w \in OneWorker : update_task_commit(w)
    \/ \E w \in OneWorker : update_task_refresh(w)
    \/ \E w \in OneWorker, credentials \in DataCredentials : list_tasks_route(w, credentials)
    \/ \E w \in OneWorker : list_tasks_read(w)
    \/ \E w \in OneWorker, credentials \in DataCredentials, task_id \in 1..MaxTasks :
          get_task_route(w, credentials, task_id)
    \/ \E w \in OneWorker : get_task_read(w)
    \/ \E w \in OneWorker : get_task_response(w)

SpecTags == InitTasks /\ [][NextTags]_vars

\* C23: for every update with a tag list that validation accepts, the
\* tags_list of the response is the submitted list with each tag trimmed,
\* and so has at most 10 entries of at most 30 characters; GET on the task
\* exposes the tag list the task has.
C23_TagsComeBackTrimmed ==
    [][ /\ ( /\ resp'.op = "update_task"
              /\ resp'.status = 200
              /\ "tags" \in resp'.req.raw.set )
              => /\ resp'.body.tags_list
                       = [i \in DOMAIN resp'.req.raw.tags |-> strip(resp'.req.raw.tags[i])]
                 /\ Len(resp'.body.tags_list) <= 10
                 /\ \A i \in DOMAIN resp'.body.tags_list :
                       Len(resp'.body.tags_list[i]) <= 30
        /\ (resp'.op = "get_task" /\ resp'.status = 200)
              => resp'.body.tags_list = get_tags_list(tasks'[resp'.req.id].tags) ]_vars


----------------------------------------------------------------------------
(* crud/dashboard.py, api/routes/dashboard.py *)

\* the columns of the Task model (models/task.py)
TaskColumns ==
    {"id", "user_id", "title", "description", "scheduled_datetime", "status", "tags",
     "is_sent", "sent_at", "is_active", "created_by_ai", "created_at", "updated_at"}

\* the number of tasks of the user in one of the statuses
CountTasks(db, user_id, statuses) ==
    Cardinality({t \in DOMAIN db.tasks :
                    db.tasks[t].user_id = user_id /\ db.tasks[t].status \in statuses})

\* get_dashboard_stats: the counts are queried one after the other; the last
\* query names Task.completed_at, and reading an attribute the model class
\* does not have raises AttributeError
get_dashboard_stats(db, user_id) ==
    [raised |-> "completed_at" \notin TaskColumns,
     total_tasks |-> CountTasks(db, user_id, TaskStatusEnum),
     pending_count |-> CountTasks(db, user_id, {"pendiente"}),
     in_progress_count |-> CountTasks(db, user_id, {"en_progreso"}),
     completed_count |-> CountTasks(db, user_id, {"finalizado"})]

\* GET /dashboard/stats up to the function body
get_dashboard_stats_route(w, credentials) ==
    solve_dependencies(w, "get_dashboard_stats", credentials, NoReq, 200, NoReq, TRUE)

\* GET /dashboard/stats, the crud function: every exception is answered
\* 500.  The counts are SELECTs of their own, and what they count never
\* reaches a response, because the expression of the last query raises.
get_dashboard_stats_read(w) ==
    LET request == inflight[w]
        stats == get_dashboard_stats(Db, request.user)
    IN
    /\ request.pc = "authenticated"
    /\ request.op = "get_dashboard_stats"
    /\ Reads
    /\ IF stats.raised
       THEN Answer(w, Response("get_dashboard_stats", 500, "AttributeError", request.user,
                               request.cred, NoReq))
       ELSE Answer(w, ResponseWith("get_dashboard_stats", 200, request.user, request.cred,
                                   NoReq, [success |-> TRUE, data |-> stats]))

NextDashboard ==
    \/ \E w \in OneWorker, credentials \in DataCredentials, scheduled_datetime \in FutureDates,
          v \in IdLists : create_task_route(w, credentials, scheduled_datetime, v)
    \/ \E w \in OneWorker : create_task_read(w)
    \/ \E w \in OneWorker : create_task_commit(w)
    \/ \E w \in OneWorker : create_task_refresh(w)
    \/ \E w \in OneWorker : create_task_history(w)
    \/ \E w \in OneWorker, credentials \in DataCredentials, task_id \in 1..MaxTasks,
          status \in TaskStatusEnum : update_task_status_route(w, credentials, task_id, status)
    \/ \E w \in OneWorker : update_task_status_read(w)
    \/ \E w \in OneWorker : update_task_status_commit(w)
    \/ \E w \in OneWorker : update_task_status_refresh(w)
    \/ \E w \in OneWorker : update_task_status_history(w)
    \/ \E w \in OneWorker, credentials \in DataCredentials :
          get_dashboard_stats_route(w, credentials)
    \/ \E w \in OneWorker : get_dashboard_stats_read(w)

SpecDashboard == InitTasks /\ [][NextDashboard]_vars

\* C25: GET /dashboard/stats for an authenticated user answers 200 with
\* success = true, and total_tasks, pending_count, in_progress_count and
\* completed_count are the numbers of the user's tasks overall and in status
\* pendiente, en_progreso and finalizado.
C25_DashboardStatsCount ==
    [][\A w \in Workers :
          StepOf(w, "get_dashboard_stats", "authenticated")
             => LET user == inflight[w].user IN
                /\ resp'.status = 200
                /\ resp'.body.success
                /\ resp'.body.data.total_tasks = CountTasks(Db, user, TaskStatusEnum)
                /\ resp'.body.data.pending_count = CountTasks(Db, user, {"pendiente"})
                /\ resp'.body.data.in_progress_count = CountTasks(Db, user, {"en_progreso"})
                /\ resp'.body.data.completed_count = CountTasks(Db, user, {"finalizado"})]_vars

----------------------------------------------------------------------------
(* schemas/ai_request.py, models/ai_request.py, crud/ai_request.py,        *)
(* api/routes/ai.py                                                        *)

InputTypeEnum == {"text", "audio"}

\* AIRequestCreate: input_text has min_length 1 and input_type is one of the
\* enum's values
AIRequestCreate(body) ==
    [ok |-> ~(Len(body.input_text) < 1) /\ body.input_type \in InputTypeEnum,
     input_text |-> body.input_text, input_type |-> body.input_type]

\* AIRequestConfirm: tasks_created_ids has min_length 1 and the validator
\* returns list(set(v)).  CPython iterates a set of non-negative ints that
\* are smaller than its hash table in ascending order, and the table of a
\* set built from a list has more than twice as many slots as elements.
AIRequestConfirm(v) ==
    [ok |-> ~(Len(v) < 1), tasks_created_ids |-> Ascending(Range(v))]

\* the length of the column tasks_created, String(500)
TasksCreatedLength == 500

\* the text the mock interpretation writes to ai_response
mock_ai_response(request_in) ==
    <<"I", "n", "t", "e", "r", "p", "r", "e", "t", "a", "c", "i", "ó", "n", " ", "d", "e",
      ":", " ">> \o request_in.input_text

\* the text the mock interpretation writes to interpreted_data
mock_interpreted_data ==
    <<
      "{", "\"", "t", "a", "s", "k", "s", "\"", ":", " ", "[", "{", "\"", "t", "i", "t",
      "l", "e", "\"", ":", " ", "\"", "T", "a", "r", "e", "a", " ", "g", "e", "n", "e",
      "r", "a", "d", "a", "\"", ",", " ", "\"", "d", "e", "s", "c", "r", "i", "p", "t",
      "i", "o", "n", "\"", ":", " ", "r", "e", "q", "u", "e", "s", "t", "_", "i", "n", ".",
      "i", "n", "p", "u", "t", "_", "t", "e", "x", "t", ",", " ", "\"", "s", "c", "h", "e",
      "d", "u", "l", "e", "d", "_", "d", "a", "t", "e", "t", "i", "m", "e", "\"", ":", " ",
      "\"", "2", "0", "2", "6", "-", "0", "1", "-", "2", "5", "T", "1", "0", ":", "0", "0",
      ":", "0", "0", "Z", "\"", ",", " ", "\"", "c", "o", "n", "t", "a", "c", "t", "s",
      "\"", ":", " ", "[", "]", "}", "]", "}"
    >>

\* a row of ai_requests; None is the empty string here for ai_response,
\* interpreted_data and tasks_created
create_ai_request(requests, user_id, input_text, input_type) ==
    Append(requests, [user_id |-> user_id, input_text |-> input_text,
                      input_type |-> input_type, ai_response |-> <<>>,
                      interpreted_data |-> <<>>, was_confirmed |-> FALSE,
                      tasks_created |-> <<>>])

\* update_ai_request, the assignments and the commit: the UPDATE writes the
\* columns whose value differs from the one the session loaded
update_ai_request(requests, request_id, loaded, ai_response, interpreted_data) ==
    [requests EXCEPT ![request_id] =
        [@ EXCEPT !.ai_response = IF ai_response # loaded.ai_response
                                  THEN ai_response ELSE @,
                  !.interpreted_data = IF interpreted_data # loaded.interpreted_data
                                       THEN interpreted_data ELSE @]]

\* confirm_ai_request, the conversion of the list to a string
tasks_created_str(tasks_created_ids) ==
    IF tasks_created_ids # <<>>
    THEN join(",", [i \in DOMAIN tasks_created_ids |-> str(tasks_created_ids[i])])
    ELSE <<>>

\* confirm_ai_request, the assignments and the commit: the row the session
\* loaded is marked confirmed and given the ids joined with commas, and the
\* UPDATE writes the columns whose value differs from the one loaded.
\* PostgreSQL refuses a value longer than the column (DataError).
confirm_ai_request(requests, request_id, loaded, tasks_created_ids) ==
    IF Len(tasks_created_str(tasks_created_ids)) > TasksCreatedLength
    THEN [raised |-> TRUE, requests |-> requests]
    ELSE [raised |-> FALSE,
          requests |-> [requests EXCEPT ![request_id] =
                           [@ EXCEPT !.was_confirmed =
                                        IF ~loaded.was_confirmed THEN TRUE ELSE @,
                                     !.tasks_created =
                                        IF tasks_created_str(tasks_created_ids)
                                              # loaded.tasks_created
                                        THEN tasks_created_str(tasks_created_ids)
                                        ELSE @]]]

\* AIRequestResponse built from the refreshed row and tasks_created_list
AIRequestResponse(requests, request_id, tasks_created_list) ==
    [id |-> request_id, user_id |-> requests[request_id].user_id,
     input_text |-> requests[request_id].input_text,
     input_type |-> requests[request_id].input_type,
     ai_response |-> requests[request_id].ai_response,
     interpreted_data |-> requests[request_id].interpreted_data,
     was_confirmed |-> requests[request_id].was_confirmed,
     tasks_created |-> requests[request_id].tasks_created,
     tasks_created_list |-> tasks_created_list]

\* POST /ai/interpret up to the function body
interpret_text_route(w, credentials, body) ==
    LET request_in == AIRequestCreate(body) IN
    solve_dependencies(w, "interpret_text", credentials, body,
                       IF request_in.ok THEN 200 ELSE 422, request_in,
                       Len(ai_requests) + Cardinality(Uncommitted("interpret_text"))
                          < MaxRequests)

\* crud.create_ai_request, db.add and db.commit
interpret_text_commit(w) ==
    LET request == inflight[w] IN
    /\ request.pc = "authenticated"
    /\ request.op = "interpret_text"
    /\ UNCHANGED hits
    /\ UNCHANGED authVars
    /\ UNCHANGED dataVars
    /\ ai_requests' = create_ai_request(ai_requests, request.user, request.req.input_text,
                                        request.req.input_type)
    /\ GoOn(w, Put(At(request, "created"), "request_id", Len(ai_requests) + 1))

\* crud.create_ai_request, db.refresh
interpret_text_refresh(w) ==
    LET request == inflight[w] IN
    /\ request.pc = "created"
    /\ request.op = "interpret_text"
    /\ Reads
    /\ GoOn(w, At(request, "refreshed"))

\* crud.update_ai_request, the query by id: the session holds the row as
\* the refresh loaded it, and a row it holds keeps the values it has
interpret_text_read(w) ==
    LET request == inflight[w] IN
    /\ request.pc = "refreshed"
    /\ request.op = "interpret_text"
    /\ Reads
    /\ GoOn(w, Put(At(request, "read"), "loaded", ai_requests[request.request_id]))

\* crud.update_ai_request, the assignments and the commit
interpret_text_update(w) ==
    LET request == inflight[w] IN
    /\ request.pc = "read"
    /\ request.op = "interpret_text"
    /\ UNCHANGED hits
    /\ UNCHANGED authVars
    /\ UNCHANGED dataVars
    /\ ai_requests' = update_ai_request(ai_requests, request.request_id, request.loaded,
                                        mock_ai_response(request.req), mock_interpreted_data)
    /\ GoOn(w, At(request, "updated"))

\* crud.update_ai_request, db.refresh, and the response: the row as it is
\* stored then
interpret_text_response(w) ==
    LET request == inflight[w] IN
    /\ request.pc = "updated"
    /\ request.op = "interpret_text"
    /\ Reads
    /\ Answer(w, ResponseWith("interpret_text", 201, request.user, request.cred, request.raw,
                              AIRequestResponse(ai_requests, request.request_id, <<>>)))

\* POST /ai/confirm/{request_id} up to the function body
confirm_ai_request_route(w, credentials, request_id, v) ==
    LET confirm_data == AIRequestConfirm(v) IN
    solve_dependencies(w, "confirm_ai_request", credentials,
                       [request_id |-> request_id, tasks_created_ids |-> v],
                       IF confirm_data.ok THEN 200 ELSE 422,
                       [request_id |-> request_id,
                        tasks_created_ids |-> confirm_data.tasks_created_ids], TRUE)

\* POST /ai/confirm/{request_id}, the query by id and owner and the test of
\* was_confirmed
confirm_ai_request_check(w) ==
    LET request == inflight[w]
        request_id == request.req.request_id
        found == request_id \in DOMAIN ai_requests
                 /\ ai_requests[request_id].user_id = request.user
    IN
    /\ request.pc = "authenticated"
    /\ request.op = "confirm_ai_request"
    /\ Reads
    /\ IF ~found
       THEN Answer(w, Response("confirm_ai_request", 404, "Solicitud no encontrada",
                               request.user, request.cred, request.raw))
       ELSE IF ai_requests[request_id].was_confirmed
       THEN Answer(w, Response("confirm_ai_request", 400, "Esta solicitud ya fue confirmada",
                               request.user, request.cred, request.raw))
       ELSE GoOn(w, Put(At(request, "checked"), "loaded", ai_requests[request_id]))

\* crud.confirm_ai_request, the query by id: the session holds the row as
\* the first query loaded it, and a row it holds keeps the values it has
confirm_ai_request_read(w) ==
    LET request == inflight[w] IN
    /\ request.pc = "checked"
    /\ request.op = "confirm_ai_request"
    /\ Reads
    /\ GoOn(w, At(request, "read"))

\* crud.confirm_ai_request, the assignments and the commit, without a
\* second look at was_confirmed.  The DataError of the flush is caught
\* nowhere: 500.
confirm_ai_request_commit(w) ==
    LET request == inflight[w]
        r == confirm_ai_request(ai_requests, request.req.request_id, request.loaded,
                                request.req.tasks_created_ids)
    IN
    /\ request.pc = "read"
    /\ request.op = "confirm_ai_request"
    /\ UNCHANGED hits
    /\ UNCHANGED authVars
    /\ UNCHANGED dataVars
    /\ ai_requests' = r.requests
    /\ IF r.raised
       THEN Answer(w, Response("confirm_ai_request", 500, "DataError", request.user,
                               request.cred, request.raw))
       ELSE GoOn(w, At(request, "committed"))

\* crud.confirm_ai_request, db.refresh, and the response: the row as it is
\* stored then, with the ids of this request as tasks_created_list
confirm_ai_request_refresh(w) ==
    LET request == inflight[w] IN
    /\ request.pc = "committed"
    /\ request.op = "confirm_ai_request"
    /\ Reads
    /\ Answer(w, ResponseWith("confirm_ai_request", 200, request.user, request.cred,
                              request.raw,
                              AIRequestResponse(ai_requests, request.req.request_id,
                                                request.req.tasks_created_ids)))

\* bodies of POST /ai/interpret: with and without a text, of a type the
\* enum has and of one it has not
InterpretBodies ==
    [input_text : {<<>>, <<"h", "o", "l", "a">>}, input_type : {"text", "video"}]

\* n ids of three digits each
ManyIds(n) == [i \in 1..n |-> 99 + i]

\* lists of task ids a client confirms with: empty, single, repeated, and
\* ids beyond the tasks that exist
ConfirmLists ==
    {<<>>} \cup {<<t>> : t \in 1..(MaxTasks + 1)} \cup {<<t, t>> : t \in 1..(MaxTasks + 1)}
    \cup {<<t, t + 1>> : t \in 1..MaxTasks} \cup {<<t + 1, t>> : t \in 1..MaxTasks}

\* the longest list of such ids that, joined with commas, fits the column
\* tasks_created, and the list with one id more
LongConfirmLists == {ManyIds(125), ManyIds(126)}

NextAI ==
    \/ \E w \in OneWorker, credentials \in DataCredentials, scheduled_datetime \in FutureDates,
          v \in {<<c>> : c \in 1..MaxContacts} :
          create_task_route(w, credentials, scheduled_datetime, v)
    \/ \E w \in OneWorker : create_task_read(w)
    \/ \E w \in OneWorker : create_task_commit(w)
    \/ \E w \in OneWorker : create_task_refresh(w)
    \/ \E w \in OneWorker : create_task_history(w)
    \/ \E w \in OneWorker, credentials \in DataCredentials, body \in InterpretBodies :
          interpret_text_route(w, credentials, body)
    \/ \E w \in OneWorker : interpret_text_commit(w)
    \/ \E w \in OneWorker : interpret_text_refresh(w)
    \/ \E w \in OneWorker : interpret_text_read(w)
    \/ \E w \in OneWorker : interpret_text_update(w)
    \/ \E w \in OneWorker : interpret_text_response(w)
    \/ \E w \in OneWorker, credentials \in DataCredentials, request_id \in 1..MaxRequests,
          v \in ConfirmLists : confirm_ai_request_route(w, credentials, request_id, v)
    \/ \E w \in OneWorker, credentials \in DataCredentials, v \in LongConfirmLists :
          confirm_ai_request_route(w, credentials, 1, v)
    \/ \E w \in OneWorker : confirm_ai_request_check(w)
    \/ \E w \in OneWorker : confirm_ai_request_read(w)
    \/ \E w \in OneWorker : confirm_ai_request_commit(w)
    \/ \E w \in OneWorker : confirm_ai_request_refresh(w)

SpecAI == InitTasks /\ [][NextAI]_vars

\* the task ids written in a tasks_created string
CreatedIds(tasks_created) ==
    IF tasks_created = <<>> THEN <<>>
    ELSE LET parts == split(tasks_created, ",") IN [i \in DOMAIN parts |-> int(parts[i])]

NoDuplicates(q) == \A i, j \in DOMAIN q : q[i] = q[j] => i = j

\* C24: a confirmation of an AI request that belongs to the caller and is not
\* yet confirmed, sent with a non-empty list of task ids, succeeds whatever
\* tasks the ids name (none, another user's, the caller's): the route goes on
\* to the commit, the commit leaves the row with was_confirmed = true and
\* tasks_created holding each submitted id exactly once, no other request
\* and no task, link or history row is touched, and the answer is 200 with
\* the confirmed row.
C24_ConfirmAcceptsAnyTaskIds ==
    [][\A w \in OneWorker :
          /\ ( /\ StepOf(w, "confirm_ai_request", "authenticated")
               /\ inflight[w].req.request_id \in DOMAIN ai_requests
               /\ ai_requests[inflight[w].req.request_id].user_id = inflight[w].user
               /\ ~ai_requests[inflight[w].req.request_id].was_confirmed )
             => inflight'[w] # Idle
          /\ StepOf(w, "confirm_ai_request", "read")
             => LET request_id == inflight[w].req.request_id
                    ids == CreatedIds(ai_requests'[request_id].tasks_created)
                IN /\ inflight'[w] # Idle
                   /\ ai_requests'[request_id].was_confirmed
                   /\ Range(ids) = Range(inflight[w].raw.tasks_created_ids)
                   /\ NoDuplicates(ids)
                   /\ \A r \in DOMAIN ai_requests \ {request_id} :
                         ai_requests'[r] = ai_requests[r]
                   /\ UNCHANGED <<tasks, task_contacts, history>>
          /\ StepOf(w, "confirm_ai_request", "committed")
             => /\ resp'.status = 200
                /\ resp'.body.was_confirmed
                /\ resp'.body.tasks_created_list
                      = CreatedIds(ai_requests[inflight[w].req.request_id].tasks_created)
                /\ UNCHANGED <<ai_requests, tasks, task_contacts, history>> ]_vars

----------------------------------------------------------------------------
(* Requests served concurrently.  Each worker has its own session; the     *)
(* database is PostgreSQL at its default isolation level, READ COMMITTED,  *)
(* so a query sees what is committed when it runs and a commit writes the  *)
(* session's pending changes over whatever is committed then.              *)

\* user 1 owns both contacts; tasks are created with one or both of them and
\* two workers serve the removals
NextRemoveRace ==
    \/ \E w \in OneWorker, credentials \in DataCredentials, scheduled_datetime \in FutureDates,
          v \in IdLists : create_task_route(w, credentials, scheduled_datetime, v)
    \/ \E w \in OneWorker : create_task_read(w)
    \/ \E w \in OneWorker : create_task_commit(w)
    \/ \E w \in OneWorker : create_task_refresh(w)
    \/ \E w \in OneWorker : create_task_history(w)
    \/ \E w \in Workers, credentials \in DataCredentials, task_id \in 1..MaxTasks,
          v \in IdLists : remove_contacts_route(w, credentials, task_id, v)
    \/ \E w \in Workers : remove_contacts_task(w)
    \/ \E w \in Workers : remove_contacts_check(w)
    \/ \E w \in Workers : remove_contacts_commit(w)
    \/ \E w \in Workers : remove_contacts_refresh(w)
    \/ \E w \in Workers : remove_contacts_history(w)
    \/ \E w \in Workers : remove_contacts_reload(w)
    \/ \E w \in Workers : remove_contacts_response(w)

SpecRemoveRace == InitReplace /\ [][NextRemoveRace]_vars

\* C26: with two remove-contacts requests on one task served concurrently,
\* each in its own session, the task has at least one linked contact in
\* every state, whatever the order of the reads, checks and commits.
C26_ConcurrentRemovalsKeepAContact ==
    \A t \in DOMAIN tasks : TaskContacts(Db, t) # {}

----------------------------------------------------------------------------
(* POST /auth/register served concurrently *)

NextRegisterRace ==
    \/ \E w \in Workers, body \in RegisterBodies : register_user(w, body)
    \/ \E w \in Workers : register_user_email(w)
    \/ \E w \in Workers : register_user_username(w)
    \/ \E w \in Workers : register_user_commit(w)

SpecRegisterRace == InitAuth /\ [][NextRegisterRace]_vars

\* PUT /users/me bodies that take the email c@x.io or the username cat
RenameBodies ==
    [set : {{"email"}}, is_active : {TRUE}, email : {<<"c", "@", "x", ".", "i", "o">>},
     username : {<<"a", "n", "n">>}, password : PasswordInputs]
    \cup
    [set : {{"username"}}, is_active : {TRUE}, email : {<<"a", "@", "x", ".", "i", "o">>},
     username : {<<"c", "a", "t">>}, password : PasswordInputs]

\* the two registered users change their own rows concurrently
NextUpdateRace ==
    \/ \E w \in Workers, credentials \in DataCredentials, body \in RenameBodies :
          update_me(w, credentials, body)
    \/ \E w \in Workers : update_me_email(w)
    \/ \E w \in Workers : update_me_username(w)
    \/ \E w \in Workers : update_me_commit(w)

SpecUpdateRace == Init /\ [][NextUpdateRace]_vars

\* C27: when two registrations with the same email or username are served
\* concurrently, no two user rows share an email or a username and every
\* registration is answered 201, 400, 409 or 422, never 500.
C27_ConcurrentRegisterNever500 ==
    /\ \A u1, u2 \in DOMAIN users :
          (users[u1].email = users[u2].email \/ users[u1].username = users[u2].username)
              => u1 = u2
    /\ resp.op = "register" => resp.status \in {201, 400, 409, 422}

----------------------------------------------------------------------------
(* The two transactions of a task mutation: the crud function commits the  *)
(* task and its links, then create_history_entry commits the history row.  *)
(* Two workers serve the creations, the additions and removals of contacts *)
(* and the status changes, and read the history.  A request that is not    *)
(* served to its end (the worker is stopped, the connection is lost) is a  *)
(* worker that takes no further step.                                      *)

NextTwoCommits ==
    \/ \E w \in Workers, credentials \in DataCredentials, scheduled_datetime \in FutureDates,
          v \in IdLists : create_task_route(w, credentials, scheduled_datetime, v)
    \/ \E w \in Workers : create_task_read(w)
    \/ \E w \in Workers : create_task_commit(w)
    \/ \E w \in Workers : create_task_refresh(w)
    \/ \E w \in Workers : create_task_history(w)
    \/ \E w \in Workers, credentials \in DataCredentials, task_id \in 1..MaxTasks,
          v \in IdLists : add_contacts_route(w, credentials, task_id, v)
    \/ \E w \in Workers : add_contacts_task(w)
    \/ \E w \in Workers : add_contacts_read(w)
    \/ \E w \in Workers : add_contacts_load(w)
    \/ \E w \in Workers : add_contacts_commit(w)
    \/ \E w \in Workers : add_contacts_refresh(w)
    \/ \E w \in Workers : add_contacts_history(w)
    \/ \E w \in Workers : add_contacts_reload(w)
    \/ \E w \in Workers : add_contacts_response(w)
    \/ \E w \in Workers, credentials \in DataCredentials, task_id \in 1..MaxTasks,
          v \in IdLists : remove_contacts_route(w, credentials, task_id, v)
    \/ \E w \in Workers : remove_contacts_task(w)
    \/ \E w \in Workers : remove_contacts_check(w)
    \/ \E w \in Workers : remove_contacts_commit(w)
    \/ \E w \in Workers : remove_contacts_refresh(w)
    \/ \E w \in Workers : remove_contacts_history(w)
    \/ \E w \in Workers : remove_contacts_reload(w)
    \/ \E w \in Workers : remove_contacts_response(w)
    \/ \E w \in Workers, credentials \in DataCredentials, task_id \in 1..MaxTasks,
          status \in StatusInputs : update_task_status_route(w, credentials, task_id, status)
    \/ \E w \in Workers : update_task_status_read(w)
    \/ \E w \in Workers : update_task_status_commit(w)
    \/ \E w \in Workers : update_task_status_refresh(w)
    \/ \E w \in Workers : update_task_status_history(w)
    \/ \E w \in Workers, credentials \in DataCredentials, task_id \in 1..MaxTasks :
          get_task_history_route(w, credentials, task_id)
    \/ \E w \in Workers : get_task_history_task(w)
    \/ \E w \in Workers : get_task_history_read(w)

SpecTwoCommits == InitReplace /\ [][NextTwoCommits]_vars

\* the history rows of a task
HistoryOf(h, task_id) == SelectSeq(h, LAMBDA row : row.task_id = task_id)

\* worker w is serving a creation, an addition or removal of contacts or a
\* status change, and takes the step from position pc on
MutationStep(w, pc) ==
    /\ inflight[w].pc = pc
    /\ inflight[w].op \in HistoryOps
    /\ inflight'[w] # inflight[w]

\* C28: a task mutation and its TaskHistory row are committed in two
\* transactions, for a creation, an addition or removal of contacts and a
\* status change alike.  A step that writes a task or a link writes no
\* history row, and the request is then at a position before its history
\* row; the step that writes the history row is a later step of the same
\* request, writes one row about the task of the request and no task and no
\* link; and no step of any other request writes that row, so a request
\* that stops between its two commits leaves the mutation committed
\* without a history row.
C28_TaskCommittedBeforeItsHistory ==
    [][/\ (tasks' # tasks \/ task_contacts' # task_contacts)
             => /\ history' = history
                /\ \E w \in Workers :
                      /\ inflight[w].pc # "idle"
                      /\ inflight[w].op \in HistoryOps
                      /\ inflight'[w].pc = "committed"
       /\ \A w \in Workers :
             MutationStep(w, "refreshed")
                => /\ UNCHANGED <<contacts, tasks, task_contacts>>
                   /\ OneNewRowFor(TaskOf(inflight[w]))
       /\ history' # history
             => \E w \in Workers : MutationStep(w, "refreshed") ]_vars

\* a status change is committed and its request is between its two
\* commits, and another request has read the history of the task meanwhile
\* and was shown the creation alone
C28_Witness ==
    /\ inflight[1].pc \in {"committed", "refreshed"}
    /\ inflight[1].op = "update_task_status"
    /\ inflight[1].req.status # "pendiente"
    /\ tasks[inflight[1].req.id].status = inflight[1].req.status
    /\ inflight[2].pc = "idle"
    /\ resp.op = "get_task_history"
    /\ resp.status = 200
    /\ resp.req.id = inflight[1].req.id
    /\ Len(resp.body) = 1
    /\ resp.body[1].action = "creada"

----------------------------------------------------------------------------
(* POST /ai/interpret and POST /ai/confirm/{request_id} served concurrently *)

\* one worker takes the interpretations, two serve the confirmations, each
\* of which names one task
NextConfirmRace ==
    \/ \E w \in OneWorker, credentials \in DataCredentials, body \in InterpretBodies :
          interpret_text_route(w, credentials, body)
    \/ \E w \in OneWorker : interpret_text_commit(w)
    \/ \E w \in OneWorker : interpret_text_refresh(w)
    \/ \E w \in OneWorker : interpret_text_read(w)
    \/ \E w \in OneWorker : interpret_text_update(w)
    \/ \E w \in OneWorker : interpret_text_response(w)
    \/ \E w \in Workers, credentials \in DataCredentials, request_id \in 1..MaxRequests,
          v \in {<<t>> : t \in 1..(MaxTasks + 1)} :
          confirm_ai_request_route(w, credentials, request_id, v)
    \/ \E w \in Workers : confirm_ai_request_check(w)
    \/ \E w \in Workers : confirm_ai_request_read(w)
    \/ \E w \in Workers : confirm_ai_request_commit(w)
    \/ \E w \in Workers : confirm_ai_request_refresh(w)

SpecConfirmRace == InitTasks /\ [][NextConfirmRace]_vars

\* C29: an AI request is confirmed at most once: a confirmed request stays
\* confirmed and keeps its tasks_created in every step, and a confirmation
\* of a request that is already confirmed ends with the answer 400 at its
\* next step, also when two confirmations are served concurrently.
C29_ConfirmedAtMostOnce ==
    [][/\ \A r \in DOMAIN ai_requests :
             ai_requests[r].was_confirmed
                 => /\ ai_requests'[r].was_confirmed
                    /\ ai_requests'[r].tasks_created = ai_requests[r].tasks_created
       /\ \A w \in Workers :
             (/\ inflight[w].pc \in {"authenticated", "checked", "read"}
              /\ inflight[w].op = "confirm_ai_request"
              /\ inflight'[w] # inflight[w]
              /\ inflight[w].req.request_id \in DOMAIN ai_requests
              /\ ai_requests[inflight[w].req.request_id].user_id = inflight[w].user
              /\ ai_requests[inflight[w].req.request_id].was_confirmed)
                 => /\ inflight'[w] = Idle
                    /\ resp'.status = 400]_vars

----------------------------------------------------------------------------
(* Administrators.  No route creates one: the first superuser is a row     *)
(* written to the database when the service is installed.                  *)

\* GET /users/ up to the function body
list_users_route(w, credentials) ==
    solve_dependencies(w, "list_users", credentials, NoReq, 200, NoReq, TRUE)

\* GET /users/, crud.get_users
list_users_read(w) ==
    LET request == inflight[w] IN
    /\ request.pc = "authenticated"
    /\ request.op = "list_users"
    /\ Reads
    /\ Answer(w, ResponseWith("list_users", 200, request.user, request.cred, NoReq,
                              DOMAIN users))

\* the users table with the first superuser in it
FirstSuperuser ==
    [create_user(<<>>, [email |-> <<"b", "@", "x", ".", "i", "o">>,
                        username |-> <<"b", "o", "b">>, password |-> "password1"])
        EXCEPT ![1].is_superuser = TRUE]

\* PUT /users/me bodies that carry an is_superuser key, alone and with
\* is_active
PrivilegeBodies ==
    [set : {{"is_superuser"}, {"is_superuser", "is_active"}}, is_superuser : {TRUE},
     is_active : {TRUE}, email : {<<"a", "@", "x", ".", "i", "o">>},
     username : {<<"a", "n", "n">>}, password : PasswordInputs]

\* the database is empty or holds the first superuser
InitPrivilege ==
    /\ users \in {<<>>, FirstSuperuser}
    /\ jar = EmptyJar
    /\ now = 0
    /\ contacts = <<>>
    /\ contact_seq = 0
    /\ tasks = <<>>
    /\ task_contacts = {}
    /\ history = <<>>
    /\ ai_requests = <<>>
    /\ inflight = NoRequests
    /\ hits = NoHits
    /\ resp = Response("init", 0, "", 0, NoToken, NoReq)

NextPrivilege ==
    \/ \E w \in OneWorker, body \in AuthBodies : register_user(w, body)
    \/ \E w \in OneWorker : register_user_email(w)
    \/ \E w \in OneWorker : register_user_username(w)
    \/ \E w \in OneWorker : register_user_commit(w)
    \/ \E w \in OneWorker, x \in {<<"a", "n", "n">>, <<"b", "o", "b">>},
          password \in PasswordInputs : login(w, x, password)
    \/ \E w \in OneWorker : login_authenticate(w)
    \/ \E credentials \in Presentable : get_me(credentials)
    \/ \E w \in OneWorker, credentials \in Presentable,
          body \in DeactivateBodies \cup PrivilegeBodies : update_me(w, credentials, body)
    \/ \E w \in OneWorker : update_me_commit(w)
    \/ \E w \in OneWorker, credentials \in Presentable, user_id \in 1..MaxUsers :
          delete_user_route(w, credentials, user_id)
    \/ \E w \in OneWorker : delete_user_read(w)
    \/ \E w \in OneWorker : delete_user_commit(w)
    \/ \E w \in OneWorker, credentials \in Presentable : list_users_route(w, credentials)
    \/ \E w \in OneWorker : list_users_read(w)

SpecPrivilege == InitPrivilege /\ [][NextPrivilege]_vars

\* C30: no operation changes the is_superuser of a user, a user made by
\* register has is_superuser = false, and an operation reserved to
\* superusers answers 403 to an authenticated user who is not one and
\* succeeds only for a superuser.
C30_SuperuserFlagIsNeverWritten ==
    [][/\ \A u \in DOMAIN users :
             u \in DOMAIN users' /\ users'[u].is_superuser = users[u].is_superuser
       /\ \A u \in DOMAIN users' \ DOMAIN users : ~users'[u].is_superuser
       /\ resp'.op \in SuperuserOps
             => LET callers == get_current_user(users, resp'.cred, now) IN
                /\ \A caller \in callers :
                      (caller.status = 200 /\ ~users[caller.user].is_superuser)
                          => resp'.status = 403 /\ users' = users
                /\ resp'.status = 200
                      => \E caller \in callers :
                            caller.status = 200 /\ users[caller.user].is_superuser]_vars

\* a user made by register has sent PUT /users/me with is_superuser = true,
\* was answered 200, and is not a superuser
C30_Witness ==
    /\ resp.op = "update_me"
    /\ resp.status = 200
    /\ "is_superuser" \in resp.req.set
    /\ resp.req.is_superuser
    /\ ~users[resp.user].is_superuser

====
